---- MODULE Spec2Model ----
(***************************************************************************)
(* Model of the claim verification service of lie_detector_be:             *)
(* services/verificationService.ts (cache, per-claim pipeline, combiner),  *)
(* with the source adapters it calls (googleFactCheck, pubmedService,      *)
(* wikipediaService, llmService) represented by the outcomes a call can    *)
(* have.  Strings the code inspects character by character are sequences   *)
(* of one-character strings; confidences are integers in hundredths.       *)
(***************************************************************************)
EXTENDS Integers, Sequences, FiniteSets, TLC

(* ------------------------------------------------------------------ *)
(* Bounds of the model                                                  *)
(* ------------------------------------------------------------------ *)
MaxTime == 1          \* the clock runs from 0 to MaxTime
MaxCandidates == 3    \* longest candidate list handed to the combiner on its own

(* ------------------------------------------------------------------ *)
(* Characters and strings                                               *)
(* ------------------------------------------------------------------ *)
UpperChars == <<"A","B","C","D","E","F","G","H","I","J","K","L","M",
                "N","O","P","Q","R","S","T","U","V","W","X","Y","Z">>
LowerChars == <<"a","b","c","d","e","f","g","h","i","j","k","l","m",
                "n","o","p","q","r","s","t","u","v","w","x","y","z">>
DigitChars == {"0","1","2","3","4","5","6","7","8","9"}
SpaceChars == {" ", "\t", "\n"}

Range(s) == {s[i] : i \in 1..Len(s)}

\* the class \w of the regular expressions: letters, digits and underscore
WordChars == Range(UpperChars) \cup Range(LowerChars) \cup DigitChars \cup {"_"}

\* String.prototype.toLowerCase on one character
LowerOf ==
    [c \in Range(UpperChars) |->
        LowerChars[CHOOSE i \in 1..26 : UpperChars[i] = c]]

lowerChar(c) == IF c \in DOMAIN LowerOf THEN LowerOf[c] ELSE c

toLowerCase(s) == [i \in 1..Len(s) |-> lowerChar(s[i])]

\* String.prototype.includes
includes(s, sub) ==
    \E i \in 1..(Len(s) - Len(sub) + 1) : SubSeq(s, i, i + Len(sub) - 1) = sub

\* String.prototype.substring(0, n)
substring0(s, n) == SubSeq(s, 1, IF Len(s) < n THEN Len(s) ELSE n)

RECURSIVE dropLeadingSpace(_)
dropLeadingSpace(s) ==
    IF s = <<>> THEN <<>>
    ELSE IF Head(s) \in SpaceChars THEN dropLeadingSpace(Tail(s)) ELSE s

RECURSIVE dropTrailingSpace(_)
dropTrailingSpace(s) ==
    IF s = <<>> THEN <<>>
    ELSE IF s[Len(s)] \in SpaceChars
         THEN dropTrailingSpace(SubSeq(s, 1, Len(s) - 1)) ELSE s

\* String.prototype.trim
trim(s) == dropTrailingSpace(dropLeadingSpace(s))

\* .replace(/[^\w\s]/g, '')
WordOrSpaceChars == WordChars \cup SpaceChars

stripNonWord(s) == SelectSeq(s, LAMBDA c : c \in WordOrSpaceChars)

\* .replace(/\s+/g, ' '): the first character of every run of whitespace
\* becomes one space and the rest of the run goes
collapseSpace(s) ==
    LET marked == [i \in 1..Len(s) |->
                      IF s[i] \notin SpaceChars THEN s[i]
                      ELSE IF i > 1 /\ s[i - 1] \in SpaceChars THEN "" ELSE " "]
    IN SelectSeq(marked, LAMBDA c : c # "")

KeyMaxLen == 200
KeyPrefix == <<"c","l","a","i","m",":">>

\* a fingerprint that takes in the id of the claim
getCacheKeyWithId(claim) ==
    KeyPrefix \o <<claim.id>> \o
    substring0(trim(collapseSpace(stripNonWord(toLowerCase(claim.text)))), KeyMaxLen)

\* getCacheKey: the fingerprint of a claim, computed from its text alone
getCacheKey(claim) ==
    KeyPrefix \o
    substring0(trim(collapseSpace(stripNonWord(toLowerCase(claim.text)))), KeyMaxLen)

(* ------------------------------------------------------------------ *)
(* pubmedService.isHealthClaim                                          *)
(* ------------------------------------------------------------------ *)
healthKeywords ==
    <<
      <<"c","a","n","c","e","r">>,
      <<"d","i","a","b","e","t","e","s">>,
      <<"h","e","a","r","t"," ","d","i","s","e","a","s","e">>,
      <<"s","t","r","o","k","e">>,
      <<"a","l","z","h","e","i","m","e","r">>,
      <<"d","e","m","e","n","t","i","a">>,
      <<"d","e","p","r","e","s","s","i","o","n">>,
      <<"a","n","x","i","e","t","y">>,
      <<"o","b","e","s","i","t","y">>,
      <<"h","y","p","e","r","t","e","n","s","i","o","n">>,
      <<"a","r","t","h","r","i","t","i","s">>,
      <<"a","s","t","h","m","a">>,
      <<"c","o","v","i","d">>,
      <<"c","o","r","o","n","a","v","i","r","u","s">>,
      <<"f","l","u">>,
      <<"i","n","f","l","u","e","n","z","a">>,
      <<"v","a","c","c","i","n","e">>,
      <<"v","a","c","c","i","n","a","t","i","o","n">>,
      <<"t","r","e","a","t","m","e","n","t">>,
      <<"t","h","e","r","a","p","y">>,
      <<"m","e","d","i","c","a","t","i","o","n">>,
      <<"d","r","u","g">>,
      <<"m","e","d","i","c","i","n","e">>,
      <<"c","u","r","e">>,
      <<"a","n","t","i","b","i","o","t","i","c">>,
      <<"s","u","p","p","l","e","m","e","n","t">>,
      <<"v","i","t","a","m","i","n">>,
      <<"r","e","m","e","d","y">>,
      <<"s","u","r","g","e","r","y">>,
      <<"d","i","e","t">>,
      <<"e","x","e","r","c","i","s","e">>,
      <<"s","l","e","e","p">>,
      <<"s","m","o","k","i","n","g">>,
      <<"a","l","c","o","h","o","l">>,
      <<"c","a","f","f","e","i","n","e">>,
      <<"n","u","t","r","i","t","i","o","n">>,
      <<"c","a","l","o","r","i","e">>,
      <<"p","r","o","t","e","i","n">>,
      <<"c","a","r","b","o","h","y","d","r","a","t","e">>,
      <<"f","a","t">>,
      <<"b","r","a","i","n">>,
      <<"h","e","a","r","t">>,
      <<"l","i","v","e","r">>,
      <<"k","i","d","n","e","y">>,
      <<"l","u","n","g">>,
      <<"i","m","m","u","n","e"," ","s","y","s","t","e","m">>,
      <<"b","l","o","o","d"," ","p","r","e","s","s","u","r","e">>,
      <<"c","h","o","l","e","s","t","e","r","o","l">>,
      <<"b","l","o","o","d"," ","s","u","g","a","r">>,
      <<"m","e","t","a","b","o","l","i","s","m">>,
      <<"s","t","u","d","y">>,
      <<"r","e","s","e","a","r","c","h">>,
      <<"c","l","i","n","i","c","a","l"," ","t","r","i","a","l">>,
      <<"p","a","t","i","e","n","t","s">>,
      <<"s","y","m","p","t","o","m","s">>,
      <<"r","i","s","k">>,
      <<"c","a","u","s","e">>,
      <<"p","r","e","v","e","n","t">>,
      <<"r","e","d","u","c","e">>,
      <<"i","n","c","r","e","a","s","e">>,
      <<"i","m","p","r","o","v","e">>,
      <<"d","o","c","t","o","r">>,
      <<"p","h","y","s","i","c","i","a","n">>,
      <<"s","c","i","e","n","t","i","s","t">>,
      <<"r","e","s","e","a","r","c","h","e","r">>,
      <<"m","e","d","i","c","a","l">>
    >>

\* a gate that lets every claim through
isHealthClaimAlways(claimText) == TRUE

\* lines 31-60: some keyword of the list occurs in the lowercased text
isHealthClaim(claimText) ==
    LET lowerText == toLowerCase(claimText)
    IN \E k \in 1..Len(healthKeywords) : includes(lowerText, healthKeywords[k])

(* ------------------------------------------------------------------ *)
(* Data model (types.ts is used through the fields the service reads)   *)
(* ------------------------------------------------------------------ *)
Ratings == {"verified", "mostly_true", "mixed", "mostly_false", "false",
            "unverified", "opinion", "outdated"}

\* the value null of a source that found nothing
Null == [null |-> TRUE]

Ev(u, n) == [url |-> u, sourceName |-> n]

\* a Verification; an absent caveats field is the empty list (the combiner
\* skips it either way)
Verif(id, r, c, s, e, t, cv) ==
    [claimId |-> id, rating |-> r, confidence |-> c, summary |-> s,
     evidence |-> e, checkedAt |-> t, caveats |-> cv]

Take(s, n) == SubSeq(s, 1, IF Len(s) < n THEN Len(s) ELSE n)

EvidenceCap == 10
CaveatCap == 5
UnverifiedConfidence == 10

(* ------------------------------------------------------------------ *)
(* verificationService.ts: the combiner                                 *)
(* ------------------------------------------------------------------ *)
\* a default result without its caveats
createUnverifiedResultBare(claim, t) ==
    Verif(claim.id, "unverified", UnverifiedConfidence,
          <<"No fact-checks found for this claim">>, <<>>, t, <<>>)

\* lines 44-54
createUnverifiedResult(claim, t) ==
    Verif(claim.id, "unverified", UnverifiedConfidence,
          <<"No fact-checks found for this claim">>, <<>>, t,
          <<"No existing fact-checks found",
            "Consider verifying with primary sources">>)

mergeEvidence(primary, secondary) ==
    LET seen == {primary[i].url : i \in 1..Len(primary)}
        unique == SelectSeq(secondary, LAMBDA e : e.url # "" /\ e.url \notin seen)
    IN Take(primary \o unique, EvidenceCap)

\* a descending sort that puts the later of two equal candidates first
RECURSIVE sortByConfidenceTiesLast(_)
sortByConfidenceTiesLast(s) ==
    IF s = <<>> THEN <<>>
    ELSE LET x == s[Len(s)]
             front == sortByConfidenceTiesLast(SubSeq(s, 1, Len(s) - 1))
             ahead == SelectSeq(front, LAMBDA y : y.confidence > x.confidence)
             behind == SelectSeq(front, LAMBDA y : y.confidence <= x.confidence)
         IN ahead \o <<x>> \o behind

\* Array.prototype.sort((a, b) => b.confidence - a.confidence): stable,
\* descending by confidence
RECURSIVE sortByConfidence(_)
sortByConfidence(s) ==
    IF s = <<>> THEN <<>>
    ELSE LET x == s[Len(s)]
             front == sortByConfidence(SubSeq(s, 1, Len(s) - 1))
             ahead == SelectSeq(front, LAMBDA y : y.confidence >= x.confidence)
             behind == SelectSeq(front, LAMBDA y : y.confidence < x.confidence)
         IN ahead \o <<x>> \o behind

\* the loop of lines 85-88: fold mergeEvidence over the later candidates
RECURSIVE mergeAll(_, _)
mergeAll(acc, rest) ==
    IF rest = <<>> THEN acc
    ELSE mergeAll(mergeEvidence(acc, Head(rest).evidence), Tail(rest))

\* a caveat list that keeps repeated caveats
addAllRepeated(acc, items) == acc \o items

\* Set.add in insertion order
RECURSIVE addAll(_, _)
addAll(acc, items) ==
    IF items = <<>> THEN acc
    ELSE addAll(IF Head(items) \in Range(acc) THEN acc ELSE Append(acc, Head(items)),
                Tail(items))

\* the loop of lines 91-96 over the sorted candidates
RECURSIVE collectCaveats(_, _)
collectCaveats(acc, rs) ==
    IF rs = <<>> THEN acc
    ELSE collectCaveats(addAll(acc, Head(rs).caveats), Tail(rs))

\* a combiner that takes the last candidate of the sorted list as primary
primaryOfLast(validResults) == validResults[Len(validResults)]

\* line 82: the primary is the first candidate of the sorted list
primaryOf(validResults) == validResults[1]

combineVerifications(claim, results, t) ==
    LET validResults == SelectSeq(results, LAMBDA r : r # Null)
    IN IF Len(validResults) = 0 THEN createUnverifiedResult(claim, t)
       ELSE LET sorted == sortByConfidence(validResults)
                primary == primaryOf(sorted)
                allEvidence == mergeAll(primary.evidence, Tail(sorted))
                allCaveats == collectCaveats(<<>>, sorted)
                summary == IF Len(sorted) > 1
                           THEN primary.summary \o
                                <<"(Verified against", ToString(Len(sorted)), "sources)">>
                           ELSE primary.summary
            IN Verif(claim.id, primary.rating, primary.confidence, summary,
                     allEvidence, t, Take(allCaveats, CaveatCap))

(* ------------------------------------------------------------------ *)
(* The Google Fact Check adapter                                        *)
(* ------------------------------------------------------------------ *)
includesAny(s, subs) == \E i \in 1..Len(subs) : includes(s, subs[i])

\* the rules are tried in the order of the source; the first that matches
\* decides
mapRating(textualRating) ==
    LET rating == toLowerCase(textualRating)
    IN IF /\ includes(rating, <<"t","r","u","e">>)
          /\ ~includes(rating, <<"f","a","l","s","e">>)
          /\ ~includes(rating, <<"m","o","s","t","l","y">>)
          /\ ~includes(rating, <<"p","a","r","t","l","y">>)
       THEN "verified"
       ELSE IF includesAny(rating, <<<<"m","o","s","t","l","y"," ","t","r","u","e">>, <<"m","o","s","t","l","y"," ","a","c","c","u","r","a","t","e">>, <<"l","a","r","g","e","l","y"," ","t","r","u","e">>>>)
       THEN "mostly_true"
       ELSE IF includesAny(rating, <<<<"m","i","x","e","d">>, <<"h","a","l","f">>, <<"p","a","r","t","l","y">>,
                                     <<"p","a","r","t","i","a","l","l","y">>, <<"m","i","s","l","e","a","d","i","n","g">>>>)
       THEN "mixed"
       ELSE IF includesAny(rating, <<<<"m","o","s","t","l","y"," ","f","a","l","s","e">>, <<"l","a","r","g","e","l","y"," ","f","a","l","s","e">>,
                                     <<"m","o","s","t","l","y"," ","i","n","a","c","c","u","r","a","t","e">>>>)
       THEN "mostly_false"
       ELSE IF includesAny(rating, <<<<"f","a","l","s","e">>, <<"p","a","n","t","s"," ","o","n"," ","f","i","r","e">>, <<"i","n","c","o","r","r","e","c","t">>,
                                     <<"w","r","o","n","g">>, <<"f","a","k","e">>, <<"h","o","a","x">>>>)
       THEN "false"
       ELSE IF includesAny(rating, <<<<"o","p","i","n","i","o","n">>, <<"s","a","t","i","r","e">>, <<"c","o","m","m","e","n","t","a","r","y">>>>)
       THEN "opinion"
       ELSE IF includesAny(rating, <<<<"o","u","t","d","a","t","e","d">>, <<"o","l","d">>, <<"n","o"," ","l","o","n","g","e","r">>>>)
       THEN "outdated"
       ELSE "unverified"

Min(a, b) == IF a < b THEN a ELSE b

\* textual ratings fact-checkers give: the sample table of the rating
\* mapping, and two more
RatingTrue == <<"T","r","u","e">>
RatingMostlyTrue == <<"M","o","s","t","l","y"," ","T","r","u","e">>
RatingHalfTrue == <<"H","a","l","f"," ","T","r","u","e">>
RatingPantsOnFire == <<"P","a","n","t","s"," ","o","n"," ","F","i","r","e","!">>
RatingSatire == <<"S","a","t","i","r","e">>
RatingUnproven == <<"U","n","p","r","o","v","e","n">>
RatingFalse == <<"F","a","l","s","e">>
SampleRatings ==
    <<RatingTrue, RatingMostlyTrue, RatingHalfTrue, RatingPantsOnFire,
      RatingSatire, RatingUnproven, RatingFalse>>

\* the mapped rating of every sample, computed once
MappedSamples == [i \in 1..Len(SampleRatings) |-> mapRating(SampleRatings[i])]

\* mapRating, looked up for the samples
mapped(textualRating) ==
    IF \E i \in 1..Len(SampleRatings) : SampleRatings[i] = textualRating
    THEN MappedSamples[CHOOSE i \in 1..Len(SampleRatings) :
                           SampleRatings[i] = textualRating]
    ELSE mapRating(textualRating)

\* calculateConfidence without the bonus for agreeing reviews
calculateConfidenceNoBonus(reviews) ==
    IF Len(reviews) = 0 THEN 30
    ELSE IF Len(reviews) = 1 THEN 60
    ELSE Min(95, Min(90, 50 + Len(reviews) * 10))

\* confidences are in hundredths; in IEEE doubles 0.5 + 2 * 0.1 + 0.1 is
\* 0.7999999999999999, one ulp under 0.8, and every other value is the
\* double nearest to the hundredth
calculateConfidence(reviews) ==
    IF Len(reviews) = 0 THEN 30
    ELSE IF Len(reviews) = 1 THEN 60
    ELSE LET baseConfidence == Min(90, 50 + Len(reviews) * 10)
             uniqueRatings == {mapped(reviews[i].textualRating) : i \in 1..Len(reviews)}
             consistencyBonus == IF Cardinality(uniqueRatings) = 1 THEN 10 ELSE 0
         IN Min(95, baseConfidence + consistencyBonus)

\* the most common mapped rating; among equally common ones the rating that
\* occurs first in the reviews (Object.entries keeps insertion order and the
\* sort is stable)
aggregateRatingFirst(ratings) == ratings[1]

aggregateRating(ratings) ==
    LET count(r) == Cardinality({i \in 1..Len(ratings) : ratings[i] = r})
        first(r) == CHOOSE i \in 1..Len(ratings) :
                        /\ ratings[i] = r
                        /\ \A j \in 1..(i - 1) : ratings[j] # r
        best == CHOOSE i \in 1..Len(ratings) :
                    /\ first(ratings[i]) = i
                    /\ \A j \in 1..Len(ratings) :
                           \/ count(ratings[j]) < count(ratings[i])
                           \/ /\ count(ratings[j]) = count(ratings[i])
                              /\ first(ratings[j]) >= i
    IN ratings[best]

Review(publisher, textualRating, url) ==
    [publisher |-> publisher, textualRating |-> textualRating, url |-> url]

\* what searchFactChecks builds from the reviews of the top matching claim;
\* a response without claims or without reviews gives null
googleVerification(c, reviews, t) ==
    IF Len(reviews) = 0 THEN Null
    ELSE LET ratings == [i \in 1..Len(reviews) |-> mapped(reviews[i].textualRating)]
             evidence == [i \in 1..Len(reviews) |->
                             Ev(reviews[i].url, reviews[i].publisher)]
             primaryReview == reviews[1]
             summary == <<primaryReview.publisher, " rated this claim as \"">>
                        \o primaryReview.textualRating \o <<"\". ">>
                        \o (IF Len(reviews) > 1
                            THEN <<ToString(Len(reviews)),
                                   " fact-checkers have reviewed this claim.">>
                            ELSE <<>>)
         IN Verif(c.id, aggregateRating(ratings), calculateConfidence(reviews),
                  summary, evidence, t, <<>>)

(* ------------------------------------------------------------------ *)
(* The PubMed adapter                                                   *)
(* ------------------------------------------------------------------ *)
\* an article summary, by what the title analysis reads from it: the number
\* of words of four or more characters its title shares with the claim, and
\* whether the title holds a support term or a contradiction term
Article(uid, overlap, hasSupport, hasContradict) ==
    [uid |-> uid, source |-> "Lancet", overlap |-> overlap,
     hasSupport |-> hasSupport, hasContradict |-> hasContradict]

analyzeArticleRelevance(articles) ==
    LET relevantArticles == SelectSeq(articles, LAMBDA a : a.overlap >= 2)
        n == Len(relevantArticles)
    IN [relevantArticles |-> relevantArticles,
        supportingCount |->
            Cardinality({i \in 1..n : /\ relevantArticles[i].hasSupport
                                      /\ ~relevantArticles[i].hasContradict}),
        contradictingCount |->
            Cardinality({i \in 1..n : /\ relevantArticles[i].hasContradict
                                      /\ ~relevantArticles[i].hasSupport})]

PubMedEvidenceCap == 5

\* a consensus rating that needs no third relevant article
consensusNoQuorum(analysis) ==
    LET s == analysis.supportingCount
        c == analysis.contradictingCount
    IN IF s > c * 2
       THEN [rating |-> "mostly_true", confidence |-> Min(70, 50 + s * 5)]
       ELSE IF c > s * 2
       THEN [rating |-> "mostly_false", confidence |-> Min(70, 50 + c * 5)]
       ELSE [rating |-> "mixed", confidence |-> 50]

\* lines 246-267: the rating and the confidence (in hundredths; 0.5 + n * 0.05
\* is the double nearest to the hundredth for every n up to 4, where the cap
\* of 0.7 sets in)
consensus(analysis) ==
    LET r == Len(analysis.relevantArticles)
        s == analysis.supportingCount
        c == analysis.contradictingCount
    IN IF r >= 3
       THEN IF s > c * 2
            THEN [rating |-> "mostly_true", confidence |-> Min(70, 50 + s * 5)]
            ELSE IF c > s * 2
            THEN [rating |-> "mostly_false", confidence |-> Min(70, 50 + c * 5)]
            ELSE [rating |-> "mixed", confidence |-> 50]
       ELSE [rating |-> "unverified", confidence |-> 40]

pubmedSummary(analysis) ==
    LET r == ToString(Len(analysis.relevantArticles))
        s == analysis.supportingCount
        c == analysis.contradictingCount
    IN IF Len(analysis.relevantArticles) >= 3
       THEN IF s > c * 2
            THEN <<"Found ", r, " relevant PubMed studies, with ", ToString(s),
                   " appearing to support this claim.">>
            ELSE IF c > s * 2
            THEN <<"Found ", r, " relevant PubMed studies, with ", ToString(c),
                   " appearing to contradict this claim.">>
            ELSE <<"Found ", r, " relevant PubMed studies with mixed findings on this claim.">>
       ELSE <<"Found ", r, " potentially relevant PubMed article(s). More research may be needed to verify this claim.">>

PubMedCaveats ==
    <<"Based on article title analysis only - full text review recommended",
      "Scientific consensus may evolve as new research emerges",
      "Individual studies may have limitations",
      "Consult healthcare professionals for medical advice">>

\* what verifyWithPubMed builds from the article summaries the index gave
\* (none when the search found no ids or the summaries could not be fetched)
pubmedVerification(c, articles, t) ==
    IF ~isHealthClaim(c.text) THEN Null
    ELSE IF Len(articles) = 0 THEN Null
    ELSE LET analysis == analyzeArticleRelevance(articles)
             shown == Take(analysis.relevantArticles, PubMedEvidenceCap)
             evidence == [i \in 1..Len(shown) |->
                             Ev("https://pubmed.ncbi.nlm.nih.gov/" \o shown[i].uid \o "/",
                                "PubMed: " \o shown[i].source)]
             verdict == consensus(analysis)
         IN IF Len(analysis.relevantArticles) = 0 THEN Null
            ELSE Verif(c.id, verdict.rating, verdict.confidence,
                       pubmedSummary(analysis), evidence, t, PubMedCaveats)

(* ------------------------------------------------------------------ *)
(* The Wikipedia adapter                                                *)
(* ------------------------------------------------------------------ *)
\* a search result with its page, by what the relevance analysis reads from
\* it: whether the page has an extract, how many of the claim's significant
\* words the extract holds and how many of the claim's numbers
Page(title, extract, matchedTerms, matchedNumbers) ==
    [title |-> title, extract |-> extract, matchedTerms |-> matchedTerms,
     matchedNumbers |-> matchedNumbers]

TopResults == 3

\* a score is an exact fraction num / den
Fraction(n, d) == [num |-> n, den |-> d]
FractionLess(a, b) == a.num * b.den < b.num * a.den

\* lines 118-155; significantWords and claimNumbers are the counts of the
\* claim's significant words and numbers
analyzeRelevance(significantWords, claimNumbers, page) ==
    LET sw == IF significantWords > 0 THEN significantWords ELSE 1
        cn == IF claimNumbers > 0 THEN claimNumbers ELSE 1
        terms == IF significantWords > 0 THEN page.matchedTerms ELSE 0
        numbers == IF claimNumbers > 0 THEN page.matchedNumbers ELSE 0
        \* termMatchRatio * 0.6 + numberMatchRatio * 0.4
        matchScore == Fraction(6 * terms * cn + 4 * numbers * sw, 10 * sw * cn)
    IN [isRelevant |-> FractionLess(Fraction(3, 10), matchScore) \/ numbers > 0,
        matchScore |-> matchScore]

\* a confidence without the cap of line 207
wikipediaConfidenceUncapped(matchScore) ==
    IF matchScore.num = 0 THEN Fraction(3, 10) ELSE matchScore

\* line 207: Math.min(0.5, matchScore || 0.3)
wikipediaConfidence(matchScore) ==
    LET score == IF matchScore.num = 0 THEN Fraction(3, 10) ELSE matchScore
    IN IF FractionLess(Fraction(1, 2), score) THEN Fraction(1, 2) ELSE score

WikipediaCaveats ==
    <<"Wikipedia is a reference source, not a fact-checker",
      "Information should be verified with primary sources",
      "Wikipedia content can be edited by anyone">>

\* the relevant pages among the top results, in the order of the search
relevantPages(significantWords, claimNumbers, searchResults) ==
    SelectSeq(Take(searchResults, TopResults),
              LAMBDA pg : /\ pg.extract
                          /\ analyzeRelevance(significantWords, claimNumbers, pg).isRelevant)

\* the pages bestMatch can be: a later page replaces an earlier one only with
\* a greater score. Scores that are equal as fractions can differ in the last
\* bit as doubles (0.4 against 2/3 * 0.6), so among those any can be the one
\* kept
bestMatches(significantWords, claimNumbers, searchResults) ==
    LET rel == relevantPages(significantWords, claimNumbers, searchResults)
        score(i) == analyzeRelevance(significantWords, claimNumbers, rel[i]).matchScore
    IN {i \in 1..Len(rel) : \A j \in 1..Len(rel) : ~FractionLess(score(i), score(j))}

\* what verifyWithWikipedia builds from the search results, with the page
\* at position best of the relevant ones as bestMatch
wikipediaVerification(c, significantWords, claimNumbers, searchResults, best, t) ==
    LET rel == relevantPages(significantWords, claimNumbers, searchResults)
    IN IF Len(searchResults) = 0 \/ Len(rel) = 0 THEN Null
       ELSE LET evidence == [i \in 1..Len(rel) |->
                                Ev("https://en.wikipedia.org/wiki/" \o rel[i].title,
                                   "Wikipedia: " \o rel[i].title)]
                bestMatch == analyzeRelevance(significantWords, claimNumbers, rel[best])
            IN Verif(c.id, "unverified", wikipediaConfidence(bestMatch.matchScore),
                     <<"Found relevant information in Wikipedia article \"",
                       rel[best].title, "\".">>,
                     evidence, t, WikipediaCaveats)

(* ------------------------------------------------------------------ *)
(* State                                                                *)
(* ------------------------------------------------------------------ *)
VARIABLES
    now,        \* the clock read by new Date() and by the cache
    env,        \* process.env: the two API keys the pipeline tests
    cache,      \* the NodeCache: key -> stored Verification
    pc,         \* per caller: where its verifyClaim call is suspended
    claim,      \* per caller: the claim of the current call
    results,    \* per caller: the candidate list of the current call
    ret,        \* per caller: what the last call returned
    called,     \* per caller: adapters called by the current call, in order
    raised,     \* per caller: adapters that raised during the current call
    writes,     \* per caller: cache.set calls made by the current call
    reads,      \* per caller: cache.get calls made by the current call
    evicted,    \* callers whose last call returned before an expiry or flush
                \* of its fingerprint
    offered,    \* per caller: the claims it submits in this run
    upstream,   \* per source and claim text: the answers the source can give
    combineIn,  \* the combiner on its own: its arguments
    combineOut, \* the combiner on its own: its result
    batch,      \* per caller: the claims array it passes to verifyClaims
    bpc,        \* per caller: where its verifyClaims call is suspended
    pos,        \* per caller: the position of the loop in the array (from 1)
    out,        \* per caller: the results list of verifyClaims
    cachedCount,    \* per caller: the counter of cache hits
    verifiedCount,  \* per caller: the counter of misses with a verdict
    pauses,     \* per caller: the positions after which delay(500) was called
    flushedIn,  \* callers whose running batch has seen an expiry or flush
    keyIn,      \* the fingerprint on its own: the two claims given
    keyOut,     \* the fingerprint on its own: their keys
    adapterIn,  \* a source adapter on its own: the response of its upstream
    adapterOut, \* a source adapter on its own: what it returns
    attempt,    \* the retry loop of searchFactChecks: its loop counter
    rpc,        \* the retry loop: where searchFactChecks is suspended
    requests,   \* the retry loop: the upstream requests issued so far
    answers,    \* the retry loop: the answers received so far
    sleeps,     \* the retry loop: the delays slept so far, in milliseconds
    retryOut,   \* the retry loop: what searchFactChecks returns
    isAvailable,    \* NlpServiceClient: the field isAvailable
    npc,        \* per caller of extractClaims: where its call is suspended
    sent,       \* per caller of extractClaims: the requests of its current call
    nlpOut,     \* per caller of extractClaims: what its last call returned
    startup,    \* the health check of the constructor: pending or done
    lastOutcome \* the outcome of the health check or extraction that ended last

batchVars == <<batch, bpc, pos, out, cachedCount, verifiedCount, pauses, flushedIn>>

keyVars == <<keyIn, keyOut>>

adapterVars == <<adapterIn, adapterOut>>

\* the variables of the functions that run on their own
retryVars == <<attempt, rpc, requests, answers, sleeps, retryOut>>

nlpVars == <<isAvailable, npc, sent, nlpOut, startup, lastOutcome>>

pureVars == <<keyVars, adapterVars, retryVars, nlpVars>>

vars == <<now, env, cache, pc, claim, results, ret, called, raised, writes, reads,
          evicted, offered, upstream, combineIn, combineOut, batchVars, pureVars>>

pipelineVars == <<now, env, cache, pc, claim, results, ret, called, raised, writes, reads,
                  evicted>>

Procs == {1, 2}

\* the claims callers submit: two texts with one fingerprint ("claim:flu"), of
\* which only the first holds a health keyword, and a text with another
\* fingerprint
TextFlu == <<"F","l","u">>
TextAcronym == <<"F",".","L",".","U">>
TextSky == <<"S","k","y">>
Texts == {TextFlu, TextAcronym, TextSky}
Ids == {"id1", "id2"}
Claims == [id : Ids, text : Texts]

Placeholder(name) == IF name = "google" THEN "your_google_api_key_here"
                     ELSE "your_openai_api_key_here"
\* process.env: each key unset, left at the placeholder of .env.example, or set
Envs == {[google |-> "key", llm |-> "key"],
         [google |-> "key", llm |-> ""],
         [google |-> "", llm |-> "key"],
         [google |-> Placeholder("google"), llm |-> Placeholder("llm")]}

NoRet == [none |-> TRUE]
Raise == [raise |-> TRUE]

(* ------------------------------------------------------------------ *)
(* The cache (node-cache, as configured on lines 21-24)                 *)
(* ------------------------------------------------------------------ *)
\* a get that ignores the key
cacheGetAny(c, k) == IF DOMAIN c = {} THEN Null ELSE c[CHOOSE j \in DOMAIN c : TRUE]

\* a get that never finds anything
cacheGetNothing(c, k) == Null

\* cache.get: the stored value, or Null for a key that is not there
cacheGet(c, k) == IF k \in DOMAIN c THEN c[k] ELSE Null

\* a set that stores nothing
cacheSetNothing(c, k, v) == c

\* cache.set(key, value)
cacheSet(c, k, v) == (k :> v) @@ c

\* cache.del, as the cache does for an entry whose TTL has run out
cacheDel(c, k) == [j \in DOMAIN c \ {k} |-> c[j]]

(* ------------------------------------------------------------------ *)
(* The source adapters, by the outcomes of one call                     *)
(* ------------------------------------------------------------------ *)
Adapters == {"google", "pubmed", "wikipedia", "llm"}

\* searchFactChecks catches every error inside its retry loop: it returns a
\* Verification (no caveats field) or null, and never raises
searchFactChecks(kind, c, t) ==
    CASE kind = "found" ->
           Verif(c.id, "false", 90, <<"Snopes rated this claim as False">>,
                 <<Ev("https://snopes.example/1", "Snopes")>>, t, <<>>)
      [] kind = "unrated" ->
           Verif(c.id, "unverified", 60, <<"Blog rated this claim as Unclear">>,
                 <<Ev("https://blog.example/1", "Blog")>>, t, <<>>)
      [] kind = "single" ->
           \* one review, rated "False"
           googleVerification(
               c, <<Review("PolitiFact", RatingFalse, "https://politifact.example/1")>>, t)
      [] OTHER -> Null

verifyWithPubMed(kind, c, t) ==
    CASE kind = "found" ->
           Verif(c.id, "mostly_true", 65, <<"Found 3 relevant PubMed studies">>,
                 <<Ev("https://pubmed.ncbi.nlm.nih.gov/1/", "PubMed: Lancet")>>, t,
                 PubMedCaveats)
      [] kind = "strong" ->
           \* four relevant articles, all supporting
           pubmedVerification(c, [i \in 1..4 |-> Article(ToString(10 + i), 2, TRUE, FALSE)], t)
      [] kind = "two" ->
           \* three relevant articles, two of them supporting
           pubmedVerification(
               c, <<Article("21", 2, TRUE, FALSE), Article("22", 2, TRUE, FALSE),
                    Article("23", 2, FALSE, FALSE)>>, t)
      [] kind = "mixed" ->
           \* three relevant articles with neutral titles
           pubmedVerification(c, [i \in 1..3 |-> Article(ToString(30 + i), 2, FALSE, FALSE)], t)
      [] kind = "few" ->
           \* one relevant article
           pubmedVerification(c, <<Article("41", 2, TRUE, FALSE)>>, t)
      [] kind = "raise" -> Raise
      [] OTHER -> Null

\* a Wikipedia verdict whose confidence is not capped
verifyWithWikipediaSure(kind, c, t) ==
    CASE kind = "found" ->
           Verif(c.id, "unverified", 100, <<"Found relevant information in Wikipedia">>,
                 <<Ev("https://en.wikipedia.org/wiki/X", "Wikipedia: X")>>, t,
                 WikipediaCaveats)
      [] kind = "raise" -> Raise
      [] OTHER -> Null

\* the best page holds every significant word of the claim: the confidence
\* is the cap of 0.5
verifyWithWikipedia(kind, c, t) ==
    CASE kind = "found" ->
           Verif(c.id, "unverified", 50, <<"Found relevant information in Wikipedia">>,
                 <<Ev("https://en.wikipedia.org/wiki/X", "Wikipedia: X")>>, t,
                 WikipediaCaveats)
      [] kind = "raise" -> Raise
      [] OTHER -> Null

verifyClaimWithLLM(kind, c, t) ==
    CASE kind = "found" ->
           Verif(c.id, "mostly_false", 70, <<"The model considers this unlikely">>,
                 <<>>, t, <<"AI-generated assessment">>)
      [] kind = "unsure" ->
           \* a verdict the model has little confidence in
           Verif(c.id, "mostly_false", 40, <<"The model leans against this">>,
                 <<>>, t, <<"AI-generated assessment">>)
      [] kind = "raise" -> Raise
      [] OTHER -> Null

Kinds(a) == IF a = "google" THEN {"absent", "found", "unrated"}
            ELSE {"absent", "found", "raise"}

\* the answers source a can give to a call for claim c
Answers(a, c) == upstream[a][c.text]

\* sources that may answer a call in any way they can
AnyAnswer == [a \in Adapters |-> [t \in Texts |-> Kinds(a)]]

(* ------------------------------------------------------------------ *)
(* verificationService.ts: verifyClaim                                  *)
(* ------------------------------------------------------------------ *)
\* a guard that takes every key as configured
configuredAlways(name) == TRUE

\* the guard of a configured key (lines 140 and 181)
configured(name) == env[name] # "" /\ env[name] # Placeholder(name)

\* a fallback stage that runs whatever the candidates are
llmGuardAlways(rs) == TRUE

\* the guard of the fallback stage (line 180)
llmGuard(rs) ==
    Len(rs) = 0 \/ \A i \in 1..Len(rs) : rs[i].rating = "unverified"

\* an adapter call outside any try/catch
tryCatchMissing(o) == o

\* a try/catch around an adapter call: the error is logged and dropped
tryCatch(o) == IF o = Raise THEN Null ELSE o

\* stages that call Wikipedia before PubMed
nextStageSwapped(after, c, rs) ==
    CASE after = "start" -> IF configured("google") THEN "google" ELSE "wikipedia"
      [] after = "google" -> "wikipedia"
      [] after = "wikipedia" -> IF isHealthClaim(c.text) THEN "pubmed" ELSE "llm"
      [] after = "pubmed" -> "llm"
      [] OTHER -> "finish"

\* the stage whose call is issued next, or "finish"
nextStage(after, c, rs) ==
    CASE after = "start" ->
           IF configured("google") THEN "google"
           ELSE IF isHealthClaim(c.text) THEN "pubmed" ELSE "wikipedia"
      [] after = "google" -> IF isHealthClaim(c.text) THEN "pubmed" ELSE "wikipedia"
      [] after = "pubmed" -> "wikipedia"
      [] after = "wikipedia" ->
           IF llmGuard(rs) /\ configured("llm") THEN "llm" ELSE "finish"
      [] OTHER -> "finish"

\* lines 194-200: combine, cache, return
Finish(p, rs) ==
    LET v == combineVerifications(claim[p], rs, now)
    IN /\ cache' = cacheSet(cache, getCacheKey(claim[p]), v)
       /\ ret' = [ret EXCEPT ![p] = [verification |-> v, cached |-> FALSE]]
       /\ writes' = [writes EXCEPT ![p] = @ + 1]
       /\ results' = [results EXCEPT ![p] = rs]
       /\ pc' = [pc EXCEPT ![p] = "done"]
       /\ UNCHANGED <<called, reads>>

\* run on from the end of a stage to the next await or to the return
Proceed(p, c, rs, after) ==
    LET n == nextStage(after, c, rs)
    IN IF n = "finish" THEN Finish(p, rs)
       ELSE /\ pc' = [pc EXCEPT ![p] = n]
            /\ results' = [results EXCEPT ![p] = rs]
            /\ called' = [called EXCEPT ![p] = Append(@, n)]
            /\ UNCHANGED <<cache, ret, writes, reads>>

\* an error no try/catch holds: the call rejects
Propagate(p) ==
    /\ pc' = [pc EXCEPT ![p] = "done"]
    /\ ret' = [ret EXCEPT ![p] = Raise]
    /\ UNCHANGED <<cache, results, called, writes, reads>>

\* a hit that hands out the stored Verification with no claim id
rewriteClaimIdBlank(cached, c) == [cached EXCEPT !.claimId = ""]

\* a hit that hands out the stored Verification as it is
rewriteClaimIdNot(cached, c) == cached

\* line 126: { ...cached, claimId: claim.id }
rewriteClaimId(cached, c) == [cached EXCEPT !.claimId = c.id]

\* a claim object that carries a text (the routes do not check the members of
\* the claims array, so a claim can reach the service without one)
hasText(c) == "text" \in DOMAIN c

\* lines 118-137: the cache check, and on a miss the run to the first await;
\* claim.text.toLowerCase() on a claim without a text is a TypeError, which
\* rejects the call
verifyClaim(p, c) ==
    /\ UNCHANGED <<now, env>>
    /\ cache' = cache
    /\ claim' = [claim EXCEPT ![p] = c]
    /\ raised' = [raised EXCEPT ![p] = {}]
    /\ evicted' = evicted \ {p}
    /\ results' = [results EXCEPT ![p] = <<>>]
    /\ writes' = [writes EXCEPT ![p] = 0]
    /\ reads' = [reads EXCEPT ![p] = IF hasText(c) THEN 1 ELSE 0]
    /\ IF ~hasText(c)
       THEN /\ ret' = [ret EXCEPT ![p] = Raise]
            /\ pc' = [pc EXCEPT ![p] = "done"]
            /\ called' = [called EXCEPT ![p] = <<>>]
       ELSE LET cacheKey == getCacheKey(c)
                cached == cacheGet(cache, cacheKey)
            IN IF cached # Null
               THEN /\ ret' = [ret EXCEPT ![p] =
                                [verification |-> rewriteClaimId(cached, c),
                                 cached |-> TRUE]]
                    /\ pc' = [pc EXCEPT ![p] = "done"]
                    /\ called' = [called EXCEPT ![p] = <<>>]
               ELSE LET n == nextStage("start", c, <<>>)
                    IN /\ pc' = [pc EXCEPT ![p] = n]
                       /\ called' = [called EXCEPT ![p] = <<n>>]
                       /\ ret' = [ret EXCEPT ![p] = NoRet]

\* a caller of verifyClaim on its own
Start(p, c) ==
    /\ c \in offered[p]
    /\ pc[p] \in {"idle", "done"}
    /\ bpc[p] = "none"
    /\ UNCHANGED <<offered, upstream, combineIn, combineOut, batchVars, pureVars>>
    /\ verifyClaim(p, c)

\* lines 139-147: the Google call returns (no try/catch around it)
GoogleReturns(p, kind) ==
    /\ pc[p] = "google"
    /\ kind \in Answers("google", claim[p])
    /\ LET googleResult == searchFactChecks(kind, claim[p], now)
       IN IF googleResult = Raise
          THEN Propagate(p) /\ raised' = [raised EXCEPT ![p] = @ \cup {"google"}]
          ELSE /\ Proceed(p, claim[p],
                          IF googleResult # Null /\ googleResult.rating # "unverified"
                          THEN Append(results[p], googleResult) ELSE results[p],
                          "google")
               /\ UNCHANGED raised
    /\ UNCHANGED <<now, env, claim, evicted, offered, upstream, combineIn, combineOut,
                   batchVars, pureVars>>

\* lines 149-160: the PubMed call returns or raises
PubMedReturns(p, kind) ==
    /\ pc[p] = "pubmed"
    /\ kind \in Answers("pubmed", claim[p])
    /\ LET outcome == verifyWithPubMed(kind, claim[p], now)
           pubmedResult == tryCatch(outcome)
       IN /\ raised' = [raised EXCEPT ![p] =
                          IF outcome = Raise THEN @ \cup {"pubmed"} ELSE @]
          /\ IF pubmedResult = Raise THEN Propagate(p)
             ELSE Proceed(p, claim[p],
                          IF pubmedResult # Null
                          THEN Append(results[p], pubmedResult) ELSE results[p],
                          "pubmed")
    /\ UNCHANGED <<now, env, claim, evicted, offered, upstream, combineIn, combineOut,
                   batchVars, pureVars>>

\* lines 162-177: the Wikipedia call returns or raises
WikipediaReturns(p, kind) ==
    /\ pc[p] = "wikipedia"
    /\ kind \in Answers("wikipedia", claim[p])
    /\ LET outcome == verifyWithWikipedia(kind, claim[p], now)
           wikiResult == tryCatch(outcome)
       IN /\ raised' = [raised EXCEPT ![p] =
                          IF outcome = Raise THEN @ \cup {"wikipedia"} ELSE @]
          /\ IF wikiResult = Raise THEN Propagate(p)
             ELSE Proceed(p, claim[p],
                          IF wikiResult # Null /\ Len(wikiResult.evidence) > 0
                          THEN Append(results[p], wikiResult) ELSE results[p],
                          "wikipedia")
    /\ UNCHANGED <<now, env, claim, evicted, offered, upstream, combineIn, combineOut,
                   batchVars, pureVars>>

\* lines 179-192: the LLM call returns or raises
LLMReturns(p, kind) ==
    /\ pc[p] = "llm"
    /\ kind \in Answers("llm", claim[p])
    /\ LET outcome == verifyClaimWithLLM(kind, claim[p], now)
           llmResult == tryCatch(outcome)
       IN /\ raised' = [raised EXCEPT ![p] =
                          IF outcome = Raise THEN @ \cup {"llm"} ELSE @]
          /\ IF llmResult = Raise THEN Propagate(p)
             ELSE Proceed(p, claim[p],
                          IF llmResult # Null
                          THEN Append(results[p], llmResult) ELSE results[p],
                          "llm")
    /\ UNCHANGED <<now, env, claim, evicted, offered, upstream, combineIn, combineOut,
                   batchVars, pureVars>>

\* clearCache (POST /api/cache/clear)
clearCache ==
    /\ cache' = <<>>
    /\ evicted' = evicted \cup
                    {p \in Procs : /\ pc[p] = "done" /\ hasText(claim[p])
                                 /\ getCacheKey(claim[p]) \in DOMAIN cache}
    /\ flushedIn' = flushedIn \cup {p \in Procs : bpc[p] \in {"call", "pause"}}
    /\ UNCHANGED <<now, env, pc, claim, results, ret, called, raised, writes, reads,
                   offered, upstream, combineIn, combineOut, batch, bpc, pos, out,
                   cachedCount, verifiedCount, pauses, pureVars>>

\* the TTL of an entry runs out (stdTTL seconds after it was set): the
\* cache deletes it, on its periodic check or on the next get
Expire(k) ==
    /\ k \in DOMAIN cache
    /\ cache' = cacheDel(cache, k)
    /\ evicted' = evicted \cup
                    {p \in Procs : /\ pc[p] = "done" /\ hasText(claim[p])
                                 /\ getCacheKey(claim[p]) = k}
    /\ flushedIn' = flushedIn \cup {p \in Procs : bpc[p] \in {"call", "pause"}}
    /\ UNCHANGED <<now, env, pc, claim, results, ret, called, raised, writes, reads,
                   offered, upstream, combineIn, combineOut, batch, bpc, pos, out,
                   cachedCount, verifiedCount, pauses, pureVars>>

\* time passes
Tick ==
    /\ now < MaxTime
    /\ now' = now + 1
    /\ UNCHANGED <<env, cache, pc, claim, results, ret, called, raised, writes, reads,
                   evicted, offered, upstream, combineIn, combineOut, batchVars,
                   pureVars>>

\* no verifyClaims call in this run
NoBatch ==
    /\ batch = [p \in Procs |-> <<>>]
    /\ bpc = [p \in Procs |-> "none"]
    /\ pos = [p \in Procs |-> 0]
    /\ out = [p \in Procs |-> <<>>]
    /\ cachedCount = [p \in Procs |-> 0]
    /\ verifiedCount = [p \in Procs |-> 0]
    /\ pauses = [p \in Procs |-> {}]
    /\ flushedIn = {}

\* no fingerprint computed on its own in this run
NoKey ==
    /\ keyIn = NoRet
    /\ keyOut = NoRet

\* no source adapter run on its own in this run
NoAdapter ==
    /\ adapterIn = NoRet
    /\ adapterOut = NoRet

\* no retry loop run on its own in this run
NoRetry ==
    /\ attempt = 0
    /\ rpc = "none"
    /\ requests = 0
    /\ answers = <<>>
    /\ sleeps = <<>>
    /\ retryOut = NoRet

\* no call of the NLP client in this run
NoNlp ==
    /\ isAvailable = FALSE
    /\ npc = [p \in Procs |-> "none"]
    /\ sent = [p \in Procs |-> <<>>]
    /\ nlpOut = [p \in Procs |-> NoRet]
    /\ startup = "none"
    /\ lastOutcome = "none"

Init ==
    /\ now = 0
    /\ env \in Envs
    /\ cache = <<>>
    /\ pc = [p \in Procs |-> "idle"]
    /\ claim = [p \in Procs |-> CHOOSE c \in Claims : TRUE]
    /\ results = [p \in Procs |-> <<>>]
    /\ ret = [p \in Procs |-> NoRet]
    /\ called = [p \in Procs |-> <<>>]
    /\ raised = [p \in Procs |-> {}]
    /\ writes = [p \in Procs |-> 0]
    /\ reads = [p \in Procs |-> 0]
    /\ evicted = {}
    /\ offered = [p \in Procs |-> IF p = 1 THEN Claims ELSE {}]
    /\ upstream = AnyAnswer
    /\ combineIn = NoRet
    /\ combineOut = NoRet
    /\ NoBatch
    /\ NoKey
    /\ NoAdapter
    /\ NoRetry
    /\ NoNlp

Next ==
    \/ \E p \in Procs, c \in Claims : Start(p, c)
    \/ \E p \in Procs, k \in Kinds("google") : GoogleReturns(p, k)
    \/ \E p \in Procs, k \in Kinds("pubmed") : PubMedReturns(p, k)
    \/ \E p \in Procs, k \in Kinds("wikipedia") : WikipediaReturns(p, k)
    \/ \E p \in Procs, k \in Kinds("llm") : LLMReturns(p, k)
    \/ clearCache
    \/ \E k \in DOMAIN cache : Expire(k)
    \/ Tick

Spec == Init /\ [][Next]_vars

(* ------------------------------------------------------------------ *)
(* Concurrent callers: two requests at the service boundary interleave  *)
(* at their awaits; the sources answer or stay silent                   *)
(* ------------------------------------------------------------------ *)
SomeAnswer ==
    [a \in Adapters |-> [t \in Texts |->
        IF a = "google" THEN {"absent", "found"} ELSE {"absent"}]]

InitConc ==
    /\ now = 0
    /\ env \in Envs
    /\ cache = <<>>
    /\ pc = [p \in Procs |-> "idle"]
    /\ claim = [p \in Procs |-> CHOOSE c \in Claims : TRUE]
    /\ results = [p \in Procs |-> <<>>]
    /\ ret = [p \in Procs |-> NoRet]
    /\ called = [p \in Procs |-> <<>>]
    /\ raised = [p \in Procs |-> {}]
    /\ writes = [p \in Procs |-> 0]
    /\ reads = [p \in Procs |-> 0]
    /\ evicted = {}
    /\ offered = [p \in Procs |->
                     IF p = 1 THEN {c \in Claims : c.id = "id1"}
                     ELSE {c \in Claims : c.id = "id2" /\ c.text # TextAcronym}]
    /\ upstream = SomeAnswer
    /\ combineIn = NoRet
    /\ combineOut = NoRet
    /\ NoBatch
    /\ NoKey
    /\ NoAdapter
    /\ NoRetry
    /\ NoNlp

SpecConc == InitConc /\ [][Next]_vars

(* ------------------------------------------------------------------ *)
(* The combiner on its own: combineVerifications applied to candidate   *)
(* lists drawn from a pool of results the sources can produce           *)
(* ------------------------------------------------------------------ *)
UrlOf(i) == "https://factcheck.example/" \o ToString(i)

\* the Google adapter maps every review to one evidence item: 11 reviews
GoogleMany ==
    Verif("id1", "false", 90, <<"Snopes rated this claim as False">>,
          [i \in 1..11 |-> Ev(UrlOf(i), "Checker")], 0, <<>>)

\* two reviews published under one URL
GoogleTwice ==
    Verif("id1", "verified", 60, <<"AP rated this claim as True">>,
          <<Ev(UrlOf(1), "AP"), Ev(UrlOf(1), "AP News")>>, 0, <<>>)

PubMedFound ==
    Verif("id1", "mostly_true", 70, <<"Found 4 relevant PubMed studies">>,
          <<Ev("https://pubmed.ncbi.nlm.nih.gov/1/", "PubMed: Lancet"),
            Ev("https://pubmed.ncbi.nlm.nih.gov/2/", "PubMed: BMJ")>>, 0,
          PubMedCaveats)

WikipediaFound ==
    Verif("id1", "unverified", 50, <<"Found relevant information in Wikipedia">>,
          <<Ev("https://en.wikipedia.org/wiki/X", "Wikipedia: X")>>, 0,
          WikipediaCaveats)

\* the LLM cites what it likes: a PubMed article, a source without URL, one
\* page twice; it repeats a caveat of its own and one of PubMed's
LLMFound ==
    Verif("id1", "mixed", 70, <<"The model finds mixed support">>,
          <<Ev("https://pubmed.ncbi.nlm.nih.gov/1/", "PubMed"),
            Ev("", "Textbook"),
            Ev("https://who.example/a", "WHO"),
            Ev("https://who.example/a", "WHO report")>>, 0,
          <<"AI-generated assessment", PubMedCaveats[4], "AI-generated assessment">>)

CandidatePool == {GoogleMany, GoogleTwice, PubMedFound, WikipediaFound, LLMFound, Null}

SeqsUpTo(S, n) == UNION {[1..k -> S] : k \in 0..n}

InitCombine ==
    /\ now = 0
    /\ env = [google |-> "key", llm |-> "key"]
    /\ cache = <<>>
    /\ pc = [p \in Procs |-> "idle"]
    /\ claim = [p \in Procs |-> CHOOSE c \in Claims : TRUE]
    /\ results = [p \in Procs |-> <<>>]
    /\ ret = [p \in Procs |-> NoRet]
    /\ called = [p \in Procs |-> <<>>]
    /\ raised = [p \in Procs |-> {}]
    /\ writes = [p \in Procs |-> 0]
    /\ reads = [p \in Procs |-> 0]
    /\ evicted = {}
    /\ offered = [p \in Procs |-> {}]
    /\ upstream = AnyAnswer
    /\ combineOut = NoRet
    /\ combineIn \in [claim : {c \in Claims : c.text = TextFlu},
                      results : SeqsUpTo(CandidatePool, MaxCandidates)]
    /\ NoBatch
    /\ NoKey
    /\ NoAdapter
    /\ NoRetry
    /\ NoNlp

Combine ==
    /\ combineIn # NoRet
    /\ combineOut = NoRet
    /\ combineOut' = combineVerifications(combineIn.claim, combineIn.results, now)
    /\ UNCHANGED <<combineIn, pipelineVars, offered, upstream, batchVars, pureVars>>

NextCombine == Combine

SpecCombine == InitCombine /\ [][NextCombine]_vars

\* the non-null candidates of the combiner's input
validIn == SelectSeq(combineIn.results, LAMBDA r : r # Null)

combined == combineOut # NoRet

MaxConfidenceIn ==
    CHOOSE m \in {validIn[i].confidence : i \in 1..Len(validIn)} :
        \A i \in 1..Len(validIn) : validIn[i].confidence <= m

CexC6 ==
    (combined /\ Len(validIn) > 0) => Len(combineOut.evidence) <= 10

\* C7: for a non-empty candidate list no two evidence items of the output
\* have the same URL
CexC7 ==
    (combined /\ Len(validIn) > 0) =>
        \A i, j \in 1..Len(combineOut.evidence) :
            i # j => combineOut.evidence[i].url # combineOut.evidence[j].url

\* the ways to walk the candidates in descending order of confidence
DescendingWalks ==
    {f \in [1..Len(validIn) -> 1..Len(validIn)] :
        /\ \A i, j \in 1..Len(validIn) : i # j => f[i] # f[j]
        /\ \A i, j \in 1..Len(validIn) :
              i < j => validIn[f[i]].confidence >= validIn[f[j]].confidence}

\* the caveats met on a walk, in the order met
RECURSIVE caveatsMet(_, _)
caveatsMet(f, i) ==
    IF i > Len(validIn) THEN <<>>
    ELSE validIn[f[i]].caveats \o caveatsMet(f, i + 1)

\* the first n distinct items of a list
RECURSIVE firstDistinct(_, _, _)
firstDistinct(items, n, acc) ==
    IF items = <<>> \/ Len(acc) = n THEN acc
    ELSE firstDistinct(Tail(items), n,
                       IF Head(items) \in Range(acc) THEN acc
                       ELSE Append(acc, Head(items)))

CaveatsAsClaimed ==
    /\ Len(combineOut.caveats) <= 5
    /\ \A i, j \in 1..Len(combineOut.caveats) :
          i # j => combineOut.caveats[i] # combineOut.caveats[j]
    /\ \E f \in DescendingWalks :
          combineOut.caveats = firstDistinct(caveatsMet(f, 1), 5, <<>>)

\* C8 as stated: for any candidate list, the empty one included, the output
\* caveats are at most 5, pairwise distinct, and the first 5 distinct caveats
\* met when walking the candidates in descending order of confidence
CexC8 == combined => CaveatsAsClaimed

\* C8 amended: the above for every non-empty candidate list; for the empty
\* list the caveats are the two fixed caveats of the default result
ThmC8 ==
    combined =>
        IF Len(validIn) > 0 THEN CaveatsAsClaimed
        ELSE combineOut.caveats = <<"No existing fact-checks found",
                                    "Consider verifying with primary sources">>

\* more than 5 distinct caveats are met, some of them twice, and the walk
\* does not follow the call order
WitC8 ==
    /\ combined
    /\ Len(validIn) >= 2
    /\ validIn[1].confidence < validIn[2].confidence
    /\ Len(combineOut.caveats) = 5
    /\ \E f \in DescendingWalks :
          /\ Len(caveatsMet(f, 1)) > Cardinality(Range(caveatsMet(f, 1)))
          /\ Cardinality(Range(caveatsMet(f, 1))) > 5

(* ------------------------------------------------------------------ *)
(* Properties of verifyClaim                                            *)
(* ------------------------------------------------------------------ *)
Returned(p) == pc[p] = "done" /\ ret[p] # NoRet /\ ret[p] # Raise

\* C1: a call for a claim whose fingerprint has a live cache entry returns
\* at once with cached = true, calls no source adapter and writes nothing to
\* the cache
ThmC1 ==
    [][\A p \in Procs, c \in Claims :
          (Start(p, c) /\ getCacheKey(c) \in DOMAIN cache) =>
              /\ pc'[p] = "done"
              /\ ret'[p] # Raise /\ ret'[p].cached = TRUE
              /\ called'[p] = <<>>
              /\ writes'[p] = 0
              /\ cache' = cache]_vars

\* a call was served from the cache
WitC1 ==
    \E p \in Procs :
        /\ Returned(p) /\ ret[p].cached
        /\ called[p] = <<>> /\ writes[p] = 0
        /\ getCacheKey(claim[p]) \in DOMAIN cache

\* C3: on a hit the returned Verification carries the id of the requesting
\* claim and otherwise the fields of the stored entry, and the stored entry
\* stays as it was
ThmC3 ==
    [][\A p \in Procs, c \in Claims :
          (Start(p, c) /\ getCacheKey(c) \in DOMAIN cache) =>
              LET stored == cache[getCacheKey(c)]
                  v == ret'[p].verification
              IN /\ v.claimId = c.id
                 /\ v.rating = stored.rating
                 /\ v.confidence = stored.confidence
                 /\ v.summary = stored.summary
                 /\ v.evidence = stored.evidence
                 /\ v.checkedAt = stored.checkedAt
                 /\ v.caveats = stored.caveats
                 /\ getCacheKey(c) \in DOMAIN cache'
                 /\ cache'[getCacheKey(c)] = stored]_vars

\* a hit on an entry stored earlier under another claim id
WitC3 ==
    \E p \in Procs :
        /\ Returned(p) /\ ret[p].cached
        /\ getCacheKey(claim[p]) \in DOMAIN cache
        /\ cache[getCacheKey(claim[p])].claimId # claim[p].id
        /\ ret[p].verification.claimId = claim[p].id
        /\ ret[p].verification.checkedAt < now

\* C9: a miss on which no stage contributes a candidate does not raise and
\* returns cached = false with the default result: unverified, confidence
\* 0.1, no evidence, the two fixed caveats
ThmC9 ==
    \A p \in Procs :
        (pc[p] = "done" /\ called[p] # <<>> /\ results[p] = <<>>) =>
            /\ ret[p] # Raise /\ ret[p] # NoRet
            /\ ret[p].cached = FALSE
            /\ ret[p].verification.rating = "unverified"
            /\ ret[p].verification.confidence = 10
            /\ ret[p].verification.evidence = <<>>
            /\ ret[p].verification.caveats =
                   <<"No existing fact-checks found",
                     "Consider verifying with primary sources">>

\* every source was called; one failed and the others found nothing
WitC9 ==
    \E p \in Procs :
        /\ Returned(p) /\ results[p] = <<>>
        /\ called[p] = <<"google", "pubmed", "wikipedia", "llm">>
        /\ raised[p] # {}
        /\ ret[p].verification.rating = "unverified"

\* C10: when an adapter call raises, the stage counts as absent, the next
\* stage whose guard holds is called, and the call ends by returning a
\* Verification
ThmC10 ==
    [][\A p \in Procs :
          (raised'[p] # raised[p] /\ raised[p] \subseteq raised'[p]) =>
              LET health == \E k \in 1..Len(healthKeywords) :
                                includes(toLowerCase(claim[p].text), healthKeywords[k])
                  fallback == /\ \A i \in 1..Len(results[p]) :
                                    results[p][i].rating = "unverified"
                              /\ env.llm \notin {"", "your_openai_api_key_here"}
                  expected ==
                      CASE pc[p] = "google" -> IF health THEN "pubmed" ELSE "wikipedia"
                        [] pc[p] = "pubmed" -> "wikipedia"
                        [] pc[p] = "wikipedia" -> IF fallback THEN "llm" ELSE "done"
                        [] OTHER -> "done"
              IN /\ pc'[p] = expected
                 /\ results'[p] = results[p]
                 /\ called'[p] = IF expected = "done" THEN called[p]
                                 ELSE Append(called[p], expected)
                 /\ expected = "done" =>
                       /\ ret'[p] # Raise /\ ret'[p] # NoRet
                       /\ ret'[p].cached = FALSE
                       /\ ret'[p].verification.claimId = claim[p].id]_vars

\* PubMed failed, Wikipedia and the LLM were still called, and the call
\* returned the LLM's verdict
WitC10 ==
    \E p \in Procs :
        /\ Returned(p)
        /\ "pubmed" \in raised[p]
        /\ called[p] = <<"google", "pubmed", "wikipedia", "llm">>
        /\ ret[p].verification.rating = "mostly_false"

\* C2: once a call for text T has returned with cached = false, every later
\* call for a claim with text T, with no expiry or flush in between, returns
\* cached = true with the rating, evidence and summary the first call returned
CexC2 ==
    [][\A p, q \in Procs, c \in Claims :
          (/\ Start(p, c)
           /\ Returned(q) /\ ret[q].cached = FALSE
           /\ claim[q].text = c.text
           /\ q \notin evicted) =>
              /\ ret'[p] # NoRet /\ ret'[p] # Raise
              /\ ret'[p].cached = TRUE
              /\ ret'[p].verification.rating = ret[q].verification.rating
              /\ ret'[p].verification.evidence = ret[q].verification.evidence
              /\ ret'[p].verification.summary = ret[q].verification.summary]_vars

(* ------------------------------------------------------------------ *)
(* Deterministic sources: every source gives one fixed answer per text  *)
(* ------------------------------------------------------------------ *)
\* a source finds something for every text, for no text, or only for the
\* text that names the flu in plain letters
DetModes == {"never", "always", "plain"}

DetAnswer(mode, t) ==
    IF mode = "always" \/ (mode = "plain" /\ t = TextFlu) THEN "found" ELSE "absent"

DetWorlds ==
    {[a \in Adapters |-> [t \in Texts |-> {DetAnswer(m[a], t)}]] :
        m \in [Adapters -> DetModes]}

InitDet ==
    /\ now = 0
    /\ env \in Envs
    /\ cache = <<>>
    /\ pc = [p \in Procs |-> "idle"]
    /\ claim = [p \in Procs |-> CHOOSE c \in Claims : TRUE]
    /\ results = [p \in Procs |-> <<>>]
    /\ ret = [p \in Procs |-> NoRet]
    /\ called = [p \in Procs |-> <<>>]
    /\ raised = [p \in Procs |-> {}]
    /\ writes = [p \in Procs |-> 0]
    /\ reads = [p \in Procs |-> 0]
    /\ evicted = {}
    /\ offered = [p \in Procs |-> IF p = 1 THEN {c \in Claims : c.id = "id1"} ELSE {}]
    /\ upstream \in DetWorlds
    /\ combineIn = NoRet
    /\ combineOut = NoRet
    /\ NoBatch
    /\ NoKey
    /\ NoAdapter
    /\ NoRetry
    /\ NoNlp

SpecDet == InitDet /\ [][Next]_vars

\* the answer of source a for claim c when the source is deterministic
answerOf(a, c) == CHOOSE k \in upstream[a][c.text] : TRUE

\* lines 131-195 run in one piece on an empty cache: the Verification the
\* stages compute for claim c at time t
pipeline(c, t) ==
    LET googleResult == IF configured("google")
                        THEN searchFactChecks(answerOf("google", c), c, t) ELSE Null
        r1 == IF googleResult # Null /\ googleResult.rating # "unverified"
              THEN <<googleResult>> ELSE <<>>
        pubmedResult == IF isHealthClaim(c.text)
                        THEN tryCatch(verifyWithPubMed(answerOf("pubmed", c), c, t))
                        ELSE Null
        r2 == IF pubmedResult # Null THEN Append(r1, pubmedResult) ELSE r1
        wikiResult == tryCatch(verifyWithWikipedia(answerOf("wikipedia", c), c, t))
        r3 == IF wikiResult # Null /\ Len(wikiResult.evidence) > 0
              THEN Append(r2, wikiResult) ELSE r2
        llmResult == IF llmGuard(r3) /\ configured("llm")
                     THEN tryCatch(verifyClaimWithLLM(answerOf("llm", c), c, t))
                     ELSE Null
        r4 == IF llmResult # Null THEN Append(r3, llmResult) ELSE r3
    IN combineVerifications(c, r4, t)

SameVerdict(v, w) ==
    /\ v.rating = w.rating
    /\ v.confidence = w.confidence
    /\ v.evidence = w.evidence
    /\ v.caveats = w.caveats

\* C4 as stated: with deterministic sources every call returns the rating,
\* confidence, evidence and caveats the pipeline computes for its claim on an
\* empty cache, whatever the cache holds
CexC4 ==
    \A p \in Procs :
        Returned(p) => SameVerdict(ret[p].verification, pipeline(claim[p], now))

\* C4 amended: a miss returns what the pipeline computes for the claim on an
\* empty cache; a hit returns what the pipeline computes on an empty cache
\* for a claim text with the same fingerprint, not always the requested one
ThmC4 ==
    \A p \in Procs :
        Returned(p) =>
            IF ret[p].cached
            THEN \E t \in Texts :
                    /\ getCacheKey([claim[p] EXCEPT !.text = t]) = getCacheKey(claim[p])
                    /\ SameVerdict(ret[p].verification,
                                   pipeline([claim[p] EXCEPT !.text = t], now))
            ELSE SameVerdict(ret[p].verification, pipeline(claim[p], now))

\* a hit served the verdict computed for another text with the same
\* fingerprint, which is not the verdict of the requested text
WitC4 ==
    \E p \in Procs :
        /\ Returned(p) /\ ret[p].cached
        /\ ~SameVerdict(ret[p].verification, pipeline(claim[p], now))

(* ------------------------------------------------------------------ *)
(* verificationService.ts: verifyClaims                                 *)
(* ------------------------------------------------------------------ *)
MaxBatch == 2         \* the longest claims array a caller passes

\* the claim objects of a run; an array holds references to them, so one
\* object can stand at several positions of an array. The first two have the
\* same text and different ids, the third is a health claim, the fourth has
\* no text.
Objs == {"o1", "o2", "o3", "o4"}

heap ==
    [o \in Objs |->
        CASE o = "o1" -> [id |-> "id1", text |-> TextSky]
          [] o = "o2" -> [id |-> "id2", text |-> TextSky]
          [] o = "o3" -> [id |-> "id1", text |-> TextFlu]
          [] o = "o4" -> [id |-> "id2"]]

claimAt(b, i) == heap[b[i]]

\* Array.prototype.indexOf on an array of objects: the first position that
\* holds the same object (strict equality), counted from 0
indexOf(b, o) ==
    (CHOOSE i \in 1..Len(b) : b[i] = o /\ \A j \in 1..(i - 1) : b[j] # o) - 1

\* line 220: the loop takes the next claim and awaits verifyClaim for it, or,
\* at the end of the array, lines 236-240: verifyClaims returns
nextClaim(p) ==
    IF pos[p] < Len(batch[p])
    THEN /\ pos' = [pos EXCEPT ![p] = @ + 1]
         /\ bpc' = [bpc EXCEPT ![p] = "call"]
         /\ verifyClaim(p, claimAt(batch[p], pos[p] + 1))
    ELSE /\ bpc' = [bpc EXCEPT ![p] = "returned"]
         /\ UNCHANGED <<pos, pipelineVars>>

\* lines 213-221: verifyClaims is called and runs to its first await
verifyClaims(p) ==
    /\ bpc[p] = "idle"
    /\ out' = [out EXCEPT ![p] = <<>>]
    /\ cachedCount' = [cachedCount EXCEPT ![p] = 0]
    /\ verifiedCount' = [verifiedCount EXCEPT ![p] = 0]
    /\ pauses' = [pauses EXCEPT ![p] = {}]
    /\ flushedIn' = flushedIn \ {p}
    /\ IF batch[p] = <<>>
       THEN /\ bpc' = [bpc EXCEPT ![p] = "returned"]
            /\ pos' = [pos EXCEPT ![p] = 0]
            /\ UNCHANGED pipelineVars
       ELSE /\ bpc' = [bpc EXCEPT ![p] = "call"]
            /\ pos' = [pos EXCEPT ![p] = 1]
            /\ verifyClaim(p, claimAt(batch[p], 1))
    /\ UNCHANGED <<batch, offered, upstream, combineIn, combineOut, pureVars>>

\* a counter that counts every result as a hit
countCachedAll(n, result) == n + 1

\* lines 224-225: if (result.cached) cachedCount++
countCached(n, result) == IF result.cached THEN n + 1 ELSE n

\* lines 221-234: the awaited verifyClaim has settled. A rejection is not
\* caught, so verifyClaims rejects; a result is pushed and counted, and the
\* loop pauses or goes on
Resume(p) ==
    /\ bpc[p] = "call"
    /\ pc[p] = "done"
    /\ UNCHANGED <<batch, flushedIn, offered, upstream, combineIn, combineOut, pureVars>>
    /\ IF ret[p] = Raise
       THEN /\ bpc' = [bpc EXCEPT ![p] = "raised"]
            /\ UNCHANGED <<pos, out, cachedCount, verifiedCount, pauses, pipelineVars>>
       ELSE LET result == ret[p]
            IN /\ out' = [out EXCEPT ![p] = Append(@, result)]
               /\ cachedCount' = [cachedCount EXCEPT ![p] = countCached(@, result)]
               /\ verifiedCount' = [verifiedCount EXCEPT ![p] =
                                       IF ~result.cached
                                          /\ result.verification.rating # "unverified"
                                       THEN @ + 1 ELSE @]
               /\ IF /\ ~result.cached
                     /\ indexOf(batch[p], batch[p][pos[p]]) < Len(batch[p]) - 1
                  THEN /\ pauses' = [pauses EXCEPT ![p] = @ \cup {pos[p]}]
                       /\ bpc' = [bpc EXCEPT ![p] = "pause"]
                       /\ UNCHANGED <<pos, pipelineVars>>
                  ELSE /\ UNCHANGED pauses
                       /\ nextClaim(p)

\* line 233: the timer of delay(500) fires
DelayEnds(p) ==
    /\ bpc[p] = "pause"
    /\ nextClaim(p)
    /\ UNCHANGED <<batch, out, cachedCount, verifiedCount, pauses, flushedIn,
                   offered, upstream, combineIn, combineOut, pureVars>>

\* the arrays of a run: either the first caller passes any array of up to
\* MaxBatch claims and the second an empty one, or the two callers pass arrays
\* with claims of the same text at the same time
BatchRuns ==
    {b \in [Procs -> SeqsUpTo(Objs, MaxBatch)] : b[2] = <<>>}
    \cup {b \in [Procs -> SeqsUpTo(Objs, 2)] :
              b[1] \in {<<"o1">>, <<"o3", "o1">>} /\ b[2] = <<"o2">>}

BatchAnswer ==
    [a \in Adapters |-> [t \in Texts |->
        CASE a = "google" -> {"absent", "found"}
          [] a = "pubmed" -> {"absent", "raise"}
          [] OTHER -> {"absent"}]]

InitBatch ==
    /\ now = 0
    /\ env = [google |-> "key", llm |-> "key"]
    /\ cache = <<>>
    /\ pc = [p \in Procs |-> "idle"]
    /\ claim = [p \in Procs |-> CHOOSE c \in Claims : TRUE]
    /\ results = [p \in Procs |-> <<>>]
    /\ ret = [p \in Procs |-> NoRet]
    /\ called = [p \in Procs |-> <<>>]
    /\ raised = [p \in Procs |-> {}]
    /\ writes = [p \in Procs |-> 0]
    /\ reads = [p \in Procs |-> 0]
    /\ evicted = {}
    /\ offered = [p \in Procs |-> {}]
    /\ upstream = BatchAnswer
    /\ combineIn = NoRet
    /\ combineOut = NoRet
    /\ batch \in BatchRuns
    /\ bpc = [p \in Procs |-> "idle"]
    /\ pos = [p \in Procs |-> 0]
    /\ out = [p \in Procs |-> <<>>]
    /\ cachedCount = [p \in Procs |-> 0]
    /\ verifiedCount = [p \in Procs |-> 0]
    /\ pauses = [p \in Procs |-> {}]
    /\ flushedIn = {}
    /\ NoKey
    /\ NoAdapter
    /\ NoRetry
    /\ NoNlp

NextBatch ==
    \/ \E p \in Procs : verifyClaims(p)
    \/ \E p \in Procs : Resume(p)
    \/ \E p \in Procs : DelayEnds(p)
    \/ \E p \in Procs, k \in Kinds("google") : GoogleReturns(p, k)
    \/ \E p \in Procs, k \in Kinds("pubmed") : PubMedReturns(p, k)
    \/ \E p \in Procs, k \in Kinds("wikipedia") : WikipediaReturns(p, k)
    \/ \E p \in Procs, k \in Kinds("llm") : LLMReturns(p, k)
    \/ clearCache
    \/ \E k \in DOMAIN cache : Expire(k)
    \/ Tick

SpecBatch == InitBatch /\ [][NextBatch]_vars

(* ------------------------------------------------------------------ *)
(* Properties of verifyClaims                                           *)
(* ------------------------------------------------------------------ *)
\* the verifyClaims call of p has settled
Settled(p) == bpc[p] \in {"returned", "raised"}

\* positions i and j of the array of p hold claims with one fingerprint
SameKeyAt(p, i, j) ==
    /\ hasText(claimAt(batch[p], i))
    /\ hasText(claimAt(batch[p], j))
    /\ getCacheKey(claimAt(batch[p], i)) = getCacheKey(claimAt(batch[p], j))

\* C11: an error that verifyClaim does not recover from does not abort the
\* batch: verifyClaims still returns one Verification per input claim, and the
\* claim that failed gets an unverified one
CexC11 ==
    \A p \in Procs :
        Settled(p) =>
            /\ bpc[p] = "returned"
            /\ Len(out[p]) = Len(batch[p])
            /\ \A i \in 1..Len(batch[p]) :
                  ~hasText(claimAt(batch[p], i)) =>
                      out[p][i].verification.rating = "unverified"

\* C12: the list verifyClaims returns is as long as the input, its i-th
\* Verification carries the id of the i-th claim, for hits and for misses, and
\* cachedCount is the number of results with cached = true
ThmC12 ==
    \A p \in Procs :
        bpc[p] = "returned" =>
            /\ Len(out[p]) = Len(batch[p])
            /\ \A i \in 1..Len(batch[p]) :
                  out[p][i].verification.claimId = claimAt(batch[p], i).id
            /\ cachedCount[p] = Cardinality({i \in 1..Len(out[p]) : out[p][i].cached})

\* a batch of two claims with different ids returned one miss and one hit
WitC12 ==
    \E p \in Procs :
        /\ bpc[p] = "returned"
        /\ Len(batch[p]) = 2
        /\ claimAt(batch[p], 1).id # claimAt(batch[p], 2).id
        /\ ~out[p][1].cached
        /\ out[p][2].cached
        /\ cachedCount[p] = 1

StageOrder == <<"google", "pubmed", "wikipedia", "llm">>

StageNo(a) == CHOOSE i \in 1..Len(StageOrder) : StageOrder[i] = a

\* C15: a batch verifies one claim at a time: the call for the next claim is
\* made only when the call before it has returned, its result is recorded and
\* its pause, if any, is over; a claim has at most one adapter call in flight,
\* the one called last, and the adapters are called in the order Google,
\* PubMed, Wikipedia, LLM
ThmC15 ==
    [][\A p \in Procs :
          /\ (pos'[p] # pos[p]) =>
                /\ pos'[p] = pos[p] + 1
                /\ (pos[p] > 0) =>
                      /\ pc[p] = "done"
                      /\ Len(out'[p]) = pos[p]
                      /\ (pos[p] \in pauses'[p]) <=> (bpc[p] = "pause")
                      /\ bpc[p] \in {"call", "pause"}
          /\ \A i, j \in 1..Len(called'[p]) :
                i < j => StageNo(called'[p][i]) < StageNo(called'[p][j])
          /\ (pc'[p] \in Adapters) =>
                (called'[p] # <<>> /\ pc'[p] = called'[p][Len(called'[p])])
          /\ (bpc'[p] \in {"idle", "pause", "returned", "raised"}) =>
                pc'[p] \notin Adapters]_vars

\* the second claim of a batch is at its LLM call, after a pause and after
\* the calls of the three other adapters
WitC15 ==
    \E p \in Procs :
        /\ pos[p] = 2
        /\ 1 \in pauses[p]
        /\ pc[p] = "llm"
        /\ called[p] = StageOrder

\* a Verification with all its fields
Complete(v) ==
    /\ DOMAIN v = {"claimId", "rating", "confidence", "summary", "evidence",
                   "checkedAt", "caveats"}
    /\ v.rating \in Ratings

\* C16: with batches running at the same time, every value written to the
\* cache under key k is the complete Verification that one pipeline run for a
\* claim with fingerprint k returned on finishing, and every Verification a
\* caller gets carries the id of the caller's claim
ThmC16 ==
    [][/\ \A k \in DOMAIN cache' :
             (k \notin DOMAIN cache \/ cache'[k] # cache[k]) =>
                 \E p \in Procs :
                     /\ pc[p] \in Adapters
                     /\ pc'[p] = "done"
                     /\ getCacheKey(claim[p]) = k
                     /\ ret'[p] # Raise /\ ~ret'[p].cached
                     /\ cache'[k] = ret'[p].verification
                     /\ cache'[k] = combineVerifications(claim[p], results'[p], now)
                     /\ Complete(cache'[k])
       /\ \A p \in Procs :
             /\ (pc'[p] = "done" /\ ret'[p] # Raise /\ ret'[p] # NoRet) =>
                   ret'[p].verification.claimId = claim'[p].id
             /\ \A i \in 1..Len(out'[p]) :
                   out'[p][i].verification.claimId = claimAt(batch[p], i).id]_vars

\* two batches were in their pipelines for one fingerprint at the same time,
\* and the one that finished last has its result in the cache
WitC16 ==
    \E p, q \in Procs :
        /\ p # q
        /\ bpc[p] = "returned" /\ bpc[q] = "call" /\ pc[q] = "done"
        /\ ret[q] # Raise /\ ~ret[q].cached
        /\ Len(out[p]) > 0 /\ ~out[p][Len(out[p])].cached
        /\ claimAt(batch[p], Len(batch[p])).text = claim[q].text
        /\ getCacheKey(claim[q]) \in DOMAIN cache
        /\ cache[getCacheKey(claim[q])] = ret[q].verification
        /\ cache[getCacheKey(claim[q])].claimId # claimAt(batch[p], Len(batch[p])).id

\* C17: between two evictions of a fingerprint at most one verifyClaim call
\* queries the adapters for it, also with two batches at the same time: two
\* calls for one fingerprint are never both at an adapter unless an expiry or
\* flush fell into one of the two batches
CexC17 ==
    \A p, q \in Procs :
        (/\ p # q
         /\ pc[p] \in Adapters /\ pc[q] \in Adapters
         /\ getCacheKey(claim[p]) = getCacheKey(claim[q])) =>
            (p \in flushedIn \/ q \in flushedIn)

(* ------------------------------------------------------------------ *)
(* The fingerprint on its own: getCacheKey applied to pairs of claims   *)
(* ------------------------------------------------------------------ *)
Repeat(c, n) == [i \in 1..n |-> c]

\* texts that differ in case, in punctuation, in an underscore, and two texts
\* that agree on their first KeyMaxLen characters and differ after them
TextSkyUpper == <<"S","K","Y">>
TextSkyPunct == <<"S",".","k",",","y","!">>
TextSkyUnder == <<"S","_","k","y">>
TextLongB == Repeat("a", KeyMaxLen) \o <<"b">>
TextLongC == Repeat("a", KeyMaxLen) \o <<"c","d">>
KeyTexts == {TextSky, TextSkyUpper, TextSkyPunct, TextSkyUnder, TextFlu,
             TextLongB, TextLongC}

\* a Claim with its optional members (index.ts lines 111-116)
KeyClaims == [id : Ids, text : KeyTexts,
              context : {"", "statistical claim"},
              sourceUrl : {"", "https://news.example/story"}]

InitKey ==
    /\ now = 0
    /\ env = [google |-> "key", llm |-> "key"]
    /\ cache = <<>>
    /\ pc = [p \in Procs |-> "idle"]
    /\ claim = [p \in Procs |-> CHOOSE c \in Claims : TRUE]
    /\ results = [p \in Procs |-> <<>>]
    /\ ret = [p \in Procs |-> NoRet]
    /\ called = [p \in Procs |-> <<>>]
    /\ raised = [p \in Procs |-> {}]
    /\ writes = [p \in Procs |-> 0]
    /\ reads = [p \in Procs |-> 0]
    /\ evicted = {}
    /\ offered = [p \in Procs |-> {}]
    /\ upstream = AnyAnswer
    /\ combineIn = NoRet
    /\ combineOut = NoRet
    /\ NoBatch
    /\ keyIn \in KeyClaims \X KeyClaims
    /\ keyOut = NoRet
    /\ NoAdapter
    /\ NoRetry
    /\ NoNlp

ComputeKeys ==
    /\ keyIn # NoRet
    /\ keyOut = NoRet
    /\ keyOut' = <<getCacheKey(keyIn[1]), getCacheKey(keyIn[2])>>
    /\ UNCHANGED <<keyIn, pipelineVars, offered, upstream, combineIn, combineOut,
                   batchVars, adapterVars, retryVars, nlpVars>>

NextKey == ComputeKeys

SpecKey == InitKey /\ [][NextKey]_vars

keyed == keyOut # NoRet

\* C18: the key depends on the text of the claim alone: claims with one text
\* get one key, whatever their id, context and sourceUrl, and the key of one
\* text computed twice is the same
ThmC18 ==
    (keyed /\ keyIn[1].text = keyIn[2].text) => keyOut[1] = keyOut[2]

\* two claims with one text and different id, context and sourceUrl were keyed
WitC18 ==
    /\ keyed
    /\ keyIn[1].text = keyIn[2].text
    /\ keyIn[1].id # keyIn[2].id
    /\ keyIn[1].context # keyIn[2].context
    /\ keyIn[1].sourceUrl # keyIn[2].sourceUrl
    /\ keyOut[1] = keyOut[2]

LetterChars == Range(UpperChars) \cup Range(LowerChars)

\* a text without its punctuation: the characters that are a letter, a digit
\* or whitespace
withoutPunctuation(s) ==
    SelectSeq(s, LAMBDA c : c \in LetterChars \cup DigitChars \cup SpaceChars)

\* two texts that are the same but for the case of their letters
sameButCase(s, t) ==
    /\ Len(s) = Len(t)
    /\ \A i \in 1..Len(s) :
          \/ s[i] = t[i]
          \/ \E k \in 1..26 : {s[i], t[i]} = {UpperChars[k], LowerChars[k]}

\* the normalized text of lines 31-35, before it is cut
normalized(s) == trim(collapseSpace(stripNonWord(toLowerCase(s))))

\* two texts whose normalized forms agree on the first KeyMaxLen characters
sameButTail(s, t) ==
    /\ Len(normalized(s)) >= KeyMaxLen
    /\ Len(normalized(t)) >= KeyMaxLen
    /\ SubSeq(normalized(s), 1, KeyMaxLen) = SubSeq(normalized(t), 1, KeyMaxLen)

\* C19: two texts that differ only in punctuation (any character that is not
\* a letter, a digit or whitespace, so the underscore too), only in case, or
\* only after the first 200 normalized characters get the same key
CexC19 ==
    (/\ keyed
     /\ \/ withoutPunctuation(keyIn[1].text) = withoutPunctuation(keyIn[2].text)
        \/ sameButCase(keyIn[1].text, keyIn[2].text)
        \/ sameButTail(keyIn[1].text, keyIn[2].text)) =>
        keyOut[1] = keyOut[2]

(* ------------------------------------------------------------------ *)
(* The fallback stage                                                   *)
(* ------------------------------------------------------------------ *)
\* what the Google adapter can return for a claim
GoogleVerdicts(c) ==
    {searchFactChecks(k, c, t) : k \in Kinds("google"), t \in 0..MaxTime}

\* C20: the LLM adapter is called only by a call that missed the cache, when
\* the Wikipedia stage is over, the stages before it have run, the candidate
\* list is empty or holds unverified candidates only, and the LLM key is set;
\* never with a Google verdict among the candidates
ThmC20 ==
    [][\A p \in Procs :
          (pc'[p] = "llm" /\ pc[p] # "llm") =>
              /\ pc[p] = "wikipedia"
              /\ ret'[p] = NoRet
              /\ writes'[p] = 0
              /\ called'[p] =
                    (IF env.google \notin {"", "your_google_api_key_here"}
                     THEN <<"google">> ELSE <<>>)
                    \o (IF \E k \in 1..Len(healthKeywords) :
                               includes(toLowerCase(claim[p].text), healthKeywords[k])
                        THEN <<"pubmed">> ELSE <<>>)
                    \o <<"wikipedia", "llm">>
              /\ \A i \in 1..Len(results'[p]) :
                    /\ results'[p][i].rating = "unverified"
                    /\ results'[p][i] \notin GoogleVerdicts(claim[p])
              /\ env.llm \notin {"", "your_openai_api_key_here"}]_vars

\* the LLM is being called after Google gave no verdict and the candidates
\* of the other sources are all unverified
WitC20 ==
    \E p \in Procs :
        /\ pc[p] = "llm"
        /\ called[p] = <<"google", "pubmed", "wikipedia", "llm">>
        /\ Len(results[p]) > 0
        /\ \A i \in 1..Len(results[p]) : results[p][i].rating = "unverified"

(* ------------------------------------------------------------------ *)
(* The source adapters on their own: each is applied to responses its   *)
(* upstream can give                                                    *)
(* ------------------------------------------------------------------ *)
MaxReviews == 4       \* the most reviews of the top matching claim
MaxArticles == 6      \* the most article summaries PubMed gives
MaxPages == 4         \* the most search results Wikipedia gives
MaxTerms == 2         \* the most significant words, and numbers, of a claim

\* no request reaches the service in this run
NoCalls ==
    /\ now = 0
    /\ env = [google |-> "key", llm |-> "key"]
    /\ cache = <<>>
    /\ pc = [p \in Procs |-> "idle"]
    /\ claim = [p \in Procs |-> CHOOSE c \in Claims : TRUE]
    /\ results = [p \in Procs |-> <<>>]
    /\ ret = [p \in Procs |-> NoRet]
    /\ called = [p \in Procs |-> <<>>]
    /\ raised = [p \in Procs |-> {}]
    /\ writes = [p \in Procs |-> 0]
    /\ reads = [p \in Procs |-> 0]
    /\ evicted = {}
    /\ offered = [p \in Procs |-> {}]
    /\ upstream = AnyAnswer
    /\ combineIn = NoRet
    /\ combineOut = NoRet
    /\ NoBatch
    /\ NoKey

HealthClaim == [id |-> "id1", text |-> TextFlu]
OtherClaim == [id |-> "id2", text |-> TextSky]

SampleReviews ==
    {Review("PolitiFact", SampleRatings[i], UrlOf(i)) : i \in 1..Len(SampleRatings)}

InitGoogle ==
    /\ NoCalls
    /\ NoRetry
    /\ NoNlp
    /\ adapterIn \in [source : {"google"}, claim : {HealthClaim},
                      reviews : SeqsUpTo(SampleReviews, MaxReviews)]
    /\ adapterOut = NoRet

\* searchFactChecks gets the response of the fact-check index
RunGoogle ==
    /\ adapterIn # NoRet /\ adapterIn.source = "google"
    /\ adapterOut = NoRet
    /\ adapterOut' = googleVerification(adapterIn.claim, adapterIn.reviews, now)
    /\ UNCHANGED <<adapterIn, pipelineVars, offered, upstream, combineIn, combineOut,
                   batchVars, keyVars, retryVars, nlpVars>>

SpecGoogle == InitGoogle /\ [][RunGoogle]_vars

\* article summaries: one that shares a single word with the claim, and
\* relevant ones whose titles are neutral, supporting, contradicting, or both
SampleArticles ==
    {Article("1", 1, TRUE, FALSE), Article("2", 2, FALSE, FALSE),
     Article("3", 2, TRUE, FALSE), Article("4", 2, FALSE, TRUE),
     Article("5", 2, TRUE, TRUE)}

InitPubMed ==
    /\ NoCalls
    /\ NoRetry
    /\ NoNlp
    /\ adapterIn \in
          [source : {"pubmed"}, claim : {HealthClaim},
           articles : SeqsUpTo(SampleArticles, MaxArticles)]
          \cup [source : {"pubmed"}, claim : {OtherClaim},
                articles : SeqsUpTo(SampleArticles, 1)]
    /\ adapterOut = NoRet

\* verifyWithPubMed gets the article summaries of the literature index
RunPubMed ==
    /\ adapterIn # NoRet /\ adapterIn.source = "pubmed"
    /\ adapterOut = NoRet
    /\ adapterOut' = pubmedVerification(adapterIn.claim, adapterIn.articles, now)
    /\ UNCHANGED <<adapterIn, pipelineVars, offered, upstream, combineIn, combineOut,
                   batchVars, keyVars, retryVars, nlpVars>>

SpecPubMed == InitPubMed /\ [][RunPubMed]_vars

\* the pages a search can give for a claim with sw significant words and cn
\* numbers: one without extract, and extracts that hold none, one or all of
\* the words and none or one of the numbers
SamplePages(sw, cn) ==
    {Page("A", FALSE, 0, 0)}
    \cup {Page("B", TRUE, mt, mn) :
            mt \in {t \in {0, 1, sw} : t <= sw}, mn \in {n \in {0, 1} : n <= cn}}

InitWikipedia ==
    /\ NoCalls
    /\ NoRetry
    /\ NoNlp
    /\ \E sw \in 0..MaxTerms, cn \in 0..MaxTerms :
          adapterIn \in [source : {"wikipedia"}, claim : {HealthClaim},
                         significantWords : {sw}, claimNumbers : {cn},
                         searchResults : SeqsUpTo(SamplePages(sw, cn), MaxPages)]
    /\ adapterOut = NoRet

\* verifyWithWikipedia gets the search results and the page extracts
RunWikipedia ==
    /\ adapterIn # NoRet /\ adapterIn.source = "wikipedia"
    /\ adapterOut = NoRet
    /\ LET sw == adapterIn.significantWords
           cn == adapterIn.claimNumbers
           best == bestMatches(sw, cn, adapterIn.searchResults)
       IN IF best = {}
          THEN adapterOut' = Null
          ELSE \E b \in best :
                  adapterOut' = wikipediaVerification(adapterIn.claim, sw, cn,
                                                      adapterIn.searchResults, b, now)
    /\ UNCHANGED <<adapterIn, pipelineVars, offered, upstream, combineIn, combineOut,
                   batchVars, keyVars, retryVars, nlpVars>>

SpecWikipedia == InitWikipedia /\ [][RunWikipedia]_vars

(* ------------------------------------------------------------------ *)
(* Properties of the Google adapter                                     *)
(* ------------------------------------------------------------------ *)
\* the adapter has returned a Verification
GoogleAnswered ==
    /\ adapterOut # NoRet /\ adapterOut # Null
    /\ adapterIn.source = "google"

\* the documented sample table of the rating mapping
DocumentedRating(textualRating) ==
    CASE textualRating = RatingTrue -> "verified"
      [] textualRating = RatingMostlyTrue -> "mostly_true"
      [] textualRating = RatingHalfTrue -> "mixed"
      [] textualRating = RatingPantsOnFire -> "false"
      [] textualRating = RatingSatire -> "opinion"
      [] textualRating = RatingUnproven -> "unverified"

\* C22: mapRating maps every entry of the documented sample table to the
\* documented rating; with one review the adapter's rating is the mapped
\* rating of that review
CexC22 ==
    (GoogleAnswered /\ Len(adapterIn.reviews) = 1
       /\ adapterIn.reviews[1].textualRating # RatingFalse) =>
        adapterOut.rating = DocumentedRating(adapterIn.reviews[1].textualRating)

\* C23: for n >= 1 reviews the confidence is 0.6 when n = 1 and otherwise
\* min(0.95, min(0.9, 0.5 + 0.1 n) + b), b = 0.1 if all reviews map to the
\* same rating and 0 otherwise; it lies in [0.6, 0.95]; three reviews rated
\* "False" give rating false with confidence 0.9
ThmC23 ==
    GoogleAnswered =>
        LET n == Len(adapterIn.reviews)
            agree == \A i, j \in 1..n :
                        mapped(adapterIn.reviews[i].textualRating)
                          = mapped(adapterIn.reviews[j].textualRating)
            b == IF agree THEN 10 ELSE 0
            capped == IF 50 + 10 * n > 90 THEN 90 ELSE 50 + 10 * n
            expected == IF n = 1 THEN 60
                        ELSE IF capped + b > 95 THEN 95 ELSE capped + b
        IN /\ n >= 1
           /\ adapterOut.confidence = expected
           /\ adapterOut.confidence >= 60 /\ adapterOut.confidence <= 95
           /\ (n = 3 /\ \A i \in 1..n : adapterIn.reviews[i].textualRating = RatingFalse)
                 => (adapterOut.rating = "false" /\ adapterOut.confidence = 90)

\* three reviews rated "False" were given and the adapter returned
WitC23 ==
    /\ GoogleAnswered
    /\ Len(adapterIn.reviews) = 3
    /\ \A i \in 1..3 : adapterIn.reviews[i].textualRating = RatingFalse
    /\ adapterOut.confidence = 90

(* ------------------------------------------------------------------ *)
(* Properties of the Wikipedia adapter                                  *)
(* ------------------------------------------------------------------ *)
\* the adapter has returned, a Verification or null
WikipediaReturned == adapterOut # NoRet /\ adapterIn.source = "wikipedia"

\* the search results the adapter looks at that are relevant to the claim:
\* they have an extract, and the weighted share of matched words and numbers
\* is over 0.3 or a number matches
RelevantTop ==
    LET sw == adapterIn.significantWords
        cn == adapterIn.claimNumbers
        top == 1..(IF Len(adapterIn.searchResults) < 3
                   THEN Len(adapterIn.searchResults) ELSE 3)
        pg(i) == adapterIn.searchResults[i]
    IN {i \in top :
          /\ pg(i).extract
          /\ \/ cn > 0 /\ pg(i).matchedNumbers > 0
             \/ sw > 0 /\ cn > 0
                  /\ 60 * pg(i).matchedTerms * cn + 40 * pg(i).matchedNumbers * sw
                       > 30 * sw * cn
             \/ sw > 0 /\ cn = 0 /\ 60 * pg(i).matchedTerms > 30 * sw}

\* C29: every Verification the Wikipedia adapter returns has rating
\* unverified, a confidence greater than 0 and at most 0.5, and between 1
\* and 3 evidence items; the adapter returns absent whenever no page among
\* the top 3 search results is relevant
ThmC29 ==
    WikipediaReturned =>
        /\ RelevantTop = {} => adapterOut = Null
        /\ adapterOut # Null =>
              /\ adapterOut.rating = "unverified"
              /\ adapterOut.confidence.num > 0 /\ adapterOut.confidence.den > 0
              /\ 2 * adapterOut.confidence.num <= adapterOut.confidence.den
              /\ Len(adapterOut.evidence) >= 1 /\ Len(adapterOut.evidence) <= 3

\* four pages were found whose extracts hold every significant word of the
\* claim, and the adapter returned a Verification
WitC29 ==
    /\ WikipediaReturned /\ adapterOut # Null
    /\ Len(adapterIn.searchResults) = 4
    /\ adapterIn.significantWords > 0
    /\ \A i \in 1..4 :
          /\ adapterIn.searchResults[i].extract
          /\ adapterIn.searchResults[i].matchedTerms = adapterIn.significantWords
    /\ Len(adapterOut.evidence) = 3

(* ------------------------------------------------------------------ *)
(* Properties of the PubMed adapter                                     *)
(* ------------------------------------------------------------------ *)
\* the adapter has returned a Verification
PubMedAnswered ==
    /\ adapterOut # NoRet /\ adapterOut # Null
    /\ adapterIn.source = "pubmed"

\* C30: with r >= 1 relevant, s supporting and c contradicting articles the
\* rating is unverified with confidence 0.4 when r < 3; when r >= 3 it is
\* mostly_true if s > 2c, else mostly_false if c > 2s, else mixed with
\* confidence 0.5; the confidence never exceeds 0.7, s + c <= r, and at most
\* 5 evidence items are returned
ThmC30 ==
    PubMedAnswered =>
        LET as == adapterIn.articles
            relevant == {i \in 1..Len(as) : as[i].overlap >= 2}
            r == Cardinality(relevant)
            s == Cardinality({i \in relevant : as[i].hasSupport /\ ~as[i].hasContradict})
            c == Cardinality({i \in relevant : as[i].hasContradict /\ ~as[i].hasSupport})
        IN /\ r >= 1
           /\ r < 3 => (adapterOut.rating = "unverified" /\ adapterOut.confidence = 40)
           /\ r >= 3 =>
                 IF s > 2 * c THEN adapterOut.rating = "mostly_true"
                 ELSE IF c > 2 * s THEN adapterOut.rating = "mostly_false"
                 ELSE adapterOut.rating = "mixed" /\ adapterOut.confidence = 50
           /\ adapterOut.confidence <= 70
           /\ s + c <= r
           /\ Len(adapterOut.evidence) <= 5

\* six relevant articles, all supporting: the verdict is mostly_true at the
\* cap of the confidence, with five of the six as evidence
WitC30 ==
    /\ PubMedAnswered
    /\ Len(adapterIn.articles) = 6
    /\ \A i \in 1..6 : /\ adapterIn.articles[i].overlap >= 2
                       /\ adapterIn.articles[i].hasSupport
                       /\ ~adapterIn.articles[i].hasContradict
    /\ adapterOut.rating = "mostly_true"
    /\ adapterOut.confidence = 70
    /\ Len(adapterOut.evidence) = 5

(* ------------------------------------------------------------------ *)
(* The sources in detail: one caller, a health claim and another claim, *)
(* and every verdict the adapters can give                              *)
(* ------------------------------------------------------------------ *)
TextVaccine == <<"V","a","c","c","i","n","e","s"," ","w","o","r","k">>
FlowTexts == {TextVaccine, TextSky}
FlowClaims == [id : {"id1"}, text : FlowTexts]

FlowKinds(a) ==
    CASE a = "google" -> {"absent", "found", "unrated", "single"}
      [] a = "pubmed" -> {"absent", "found", "strong", "two", "mixed", "few", "raise"}
      [] a = "wikipedia" -> {"absent", "found", "raise"}
      [] a = "llm" -> {"absent", "found", "unsure", "raise"}

InitFlow ==
    /\ now = 0
    /\ env \in Envs
    /\ cache = <<>>
    /\ pc = [p \in Procs |-> "idle"]
    /\ claim = [p \in Procs |-> CHOOSE c \in FlowClaims : TRUE]
    /\ results = [p \in Procs |-> <<>>]
    /\ ret = [p \in Procs |-> NoRet]
    /\ called = [p \in Procs |-> <<>>]
    /\ raised = [p \in Procs |-> {}]
    /\ writes = [p \in Procs |-> 0]
    /\ reads = [p \in Procs |-> 0]
    /\ evicted = {}
    /\ offered = [p \in Procs |-> IF p = 1 THEN FlowClaims ELSE {}]
    /\ upstream = [a \in Adapters |-> [t \in FlowTexts |-> FlowKinds(a)]]
    /\ combineIn = NoRet
    /\ combineOut = NoRet
    /\ NoBatch
    /\ NoKey
    /\ NoAdapter
    /\ NoRetry
    /\ NoNlp

NextFlow ==
    \/ \E p \in Procs, c \in FlowClaims : Start(p, c)
    \/ \E p \in Procs, k \in FlowKinds("google") : GoogleReturns(p, k)
    \/ \E p \in Procs, k \in FlowKinds("pubmed") : PubMedReturns(p, k)
    \/ \E p \in Procs, k \in FlowKinds("wikipedia") : WikipediaReturns(p, k)
    \/ \E p \in Procs, k \in FlowKinds("llm") : LLMReturns(p, k)

SpecFlow == InitFlow /\ [][NextFlow]_vars

(* ------------------------------------------------------------------ *)
(* Properties of the stages and of the choice of the primary            *)
(* ------------------------------------------------------------------ *)
\* caller p's call missed the cache and has returned
Fresh(p) == Returned(p) /\ ~ret[p].cached

\* the Verifications source a can hand to a call for claim c
VerdictsOf(a, c) ==
    {v \in {CASE a = "google" -> searchFactChecks(k, c, now)
              [] a = "pubmed" -> verifyWithPubMed(k, c, now)
              [] a = "wikipedia" -> verifyWithWikipedia(k, c, now)
              [] a = "llm" -> verifyClaimWithLLM(k, c, now) : k \in FlowKinds(a)} :
        v # Null /\ v # Raise}

\* the candidates of p's call that source a produced
From(a, p) == {i \in 1..Len(results[p]) : results[p][i] \in VerdictsOf(a, claim[p])}

PositionsOf(a, p) == {i \in 1..Len(called[p]) : called[p][i] = a}

\* C21: a claim whose text holds no health keyword never causes a PubMed
\* call; every cache-miss verification of a claim that contains "vaccine"
\* calls PubMed exactly once, after the Google stage and before the
\* Wikipedia stage
ThmC21 ==
    \A p \in Procs :
        LET text == toLowerCase(claim[p].text)
        IN /\ (\A k \in 1..Len(healthKeywords) : ~includes(text, healthKeywords[k]))
                 => (pc[p] # "pubmed" /\ PositionsOf("pubmed", p) = {})
           /\ (includes(text, <<"v","a","c","c","i","n","e">>) /\ Fresh(p)) =>
                 \E i \in 1..Len(called[p]) :
                     /\ PositionsOf("pubmed", p) = {i}
                     /\ \A j \in PositionsOf("google", p) : j < i
                     /\ PositionsOf("wikipedia", p) # {}
                     /\ \A j \in PositionsOf("wikipedia", p) : j > i
                     /\ env.google \notin {"", "your_google_api_key_here"}
                           => PositionsOf("google", p) # {}

\* the claim about vaccines went through Google, PubMed and Wikipedia, and
\* the claim without a health keyword went through without PubMed
WitC21 ==
    /\ Fresh(1)
    /\ claim[1].text = TextVaccine
    /\ called[1] = <<"google", "pubmed", "wikipedia">>
    /\ getCacheKey([id |-> "id1", text |-> TextSky]) \in DOMAIN cache

\* C24: whenever the candidates hold a Google verdict, the final rating and
\* confidence are those of the Google candidate
CexC24 ==
    \A p \in Procs :
        Fresh(p) =>
            \A i \in From("google", p) :
                /\ ret[p].verification.rating = results[p][i].rating
                /\ ret[p].verification.confidence = results[p][i].confidence

Stages == <<"google", "pubmed", "wikipedia", "llm">>

\* the stage that produced candidate i of p's call
StageOfCandidate(p, i) == CHOOSE n \in 1..4 : i \in From(Stages[n], p)

\* C26: when two or more candidates share the highest confidence, the
\* rating, confidence and summary of the result are those of the candidate
\* of the earliest stage among them
ThmC26 ==
    \A p \in Procs :
        (Fresh(p) /\ Len(results[p]) > 0) =>
            LET rs == results[p]
                top == {i \in 1..Len(rs) :
                          \A j \in 1..Len(rs) : rs[j].confidence <= rs[i].confidence}
                first == CHOOSE i \in top :
                            \A j \in top : StageOfCandidate(p, i) <= StageOfCandidate(p, j)
                v == ret[p].verification
            IN /\ \A i \in 1..Len(rs) : \E n \in 1..4 : i \in From(Stages[n], p)
               /\ v.rating = rs[first].rating
               /\ v.confidence = rs[first].confidence
               /\ SubSeq(v.summary, 1, Len(rs[first].summary)) = rs[first].summary

\* two candidates of different stages share the highest confidence
WitC26 ==
    \E p \in Procs :
        /\ Fresh(p)
        /\ \E i, j \in 1..Len(results[p]) :
              /\ StageOfCandidate(p, i) < StageOfCandidate(p, j)
              /\ results[p][i].confidence = results[p][j].confidence
              /\ \A k \in 1..Len(results[p]) :
                    results[p][k].confidence <= results[p][i].confidence

\* C27: whenever a Google verdict is among the candidates, the Wikipedia
\* candidate is not the primary: the final rating is not unverified, and
\* the confidence and the summary are not those of the Wikipedia candidate
ThmC27 ==
    \A p \in Procs :
        (Fresh(p) /\ From("google", p) # {}) =>
            /\ ret[p].verification.rating # "unverified"
            /\ \A i \in From("wikipedia", p) :
                  /\ ret[p].verification.confidence > results[p][i].confidence
                  /\ SubSeq(ret[p].verification.summary, 1, Len(results[p][i].summary))
                        # results[p][i].summary

\* a call returned whose candidates are a Google verdict and a Wikipedia
\* candidate
WitC27 ==
    \E p \in Procs :
        /\ Fresh(p)
        /\ From("google", p) # {}
        /\ From("wikipedia", p) # {}
        /\ \A i \in From("wikipedia", p) :
              \A j \in 1..Len(results[p][i].evidence) :
                  results[p][i].evidence[j] \in Range(ret[p].verification.evidence)

\* C28: when the candidates hold a Wikipedia candidate and a PubMed or LLM
\* candidate whose rating is not unverified, the final rating is not
\* unverified
CexC28 ==
    \A p \in Procs :
        (/\ Fresh(p)
         /\ From("wikipedia", p) # {}
         /\ \E i \in From("pubmed", p) \cup From("llm", p) :
               results[p][i].rating # "unverified")
        => ret[p].verification.rating # "unverified"

(* ------------------------------------------------------------------ *)
(* Properties of the credentials                                        *)
(* ------------------------------------------------------------------ *)
\* C25: with no credential for Google (key unset or left at the
\* placeholder) no call has a Google stage, and likewise for the LLM; the
\* other stages run and the call returns a Verification, not an error
ThmC25 ==
    \A p \in Procs :
        LET google == env.google \notin {"", "your_google_api_key_here"}
            llm == env.llm \notin {"", "your_openai_api_key_here"}
            health == \E k \in 1..Len(healthKeywords) :
                          includes(toLowerCase(claim[p].text), healthKeywords[k])
        IN /\ ~google => (pc[p] # "google" /\ PositionsOf("google", p) = {})
           /\ ~llm => (pc[p] # "llm" /\ PositionsOf("llm", p) = {})
           /\ (~google \/ ~llm) =>
                 /\ ret[p] # Raise
                 /\ pc[p] = "done" => ret[p].verification.claimId = claim[p].id
                 /\ Fresh(p) =>
                       /\ google => PositionsOf("google", p) # {}
                       /\ health => PositionsOf("pubmed", p) # {}
                       /\ PositionsOf("wikipedia", p) # {}

\* with both keys at their placeholders a call for the health claim ran the
\* PubMed and Wikipedia stages only and returned
WitC25 ==
    /\ env = [google |-> "your_google_api_key_here", llm |-> "your_openai_api_key_here"]
    /\ Fresh(1)
    /\ claim[1].text = TextFlu
    /\ called[1] = <<"pubmed", "wikipedia">>
    /\ ret[1].verification.rating = "unverified"

(* ------------------------------------------------------------------ *)
(* Properties of the cache traffic of one call                          *)
(* ------------------------------------------------------------------ *)
\* C36: every verifyClaim call performs exactly one cache read; a call that
\* hits performs no write; a call that misses performs no write while it
\* runs and exactly one when it ends, under the fingerprint of its claim,
\* also when the result is the default unverified Verification
CexC36 ==
    \A p \in Procs :
        pc[p] # "idle" =>
            /\ reads[p] = 1
            /\ pc[p] # "done" => writes[p] = 0
            /\ pc[p] = "done" =>
                  IF ret[p] # Raise /\ ret[p].cached
                  THEN writes[p] = 0
                  ELSE /\ writes[p] = 1
                       /\ p \notin evicted =>
                             getCacheKey(claim[p]) \in DOMAIN cache

(* ------------------------------------------------------------------ *)
(* The retry loop of searchFactChecks                                   *)
(* ------------------------------------------------------------------ *)
MAX_RETRIES == 3

INITIAL_BACKOFF_MS == 1000

MAX_BACKOFF_MS == 10000

\* Math.random() * 500, a double in [0, 500): whole milliseconds, and the
\* largest double below 500 (ms = 500, below = TRUE)
Jitter(ms, below) == [ms |-> ms, below |-> below]

JitterSamples ==
    {Jitter(0, FALSE), Jitter(250, FALSE), Jitter(499, FALSE), Jitter(500, TRUE)}

\* exponentialDelay + jitter in double arithmetic: exact for whole
\* milliseconds; the largest double below 500 is 2^-44 under 500, less than
\* half the spacing of the doubles from 1024 on, so the sum rounds up to the
\* whole number exponentialDelay + 500
plusJitter(exponentialDelay, jitter) == exponentialDelay + jitter.ms

getBackoffDelayLinear(k, jitter) ==
    Min(plusJitter(INITIAL_BACKOFF_MS * (k + 1), jitter), MAX_BACKOFF_MS)

getBackoffDelay(k, jitter) ==
    LET exponentialDelay == INITIAL_BACKOFF_MS * 2^k
    IN  Min(plusJitter(exponentialDelay, jitter), MAX_BACKOFF_MS)

\* what an upstream request ends in: a response with reviews, a response
\* without claims or reviews, an HTTP error status, a timeout without a
\* response, an exception raised while the response is processed
AnswerKinds == {"found", "empty", "s429", "s503", "s400", "timeout", "malformed"}

retryableAny(kind) == kind \notin {"found", "empty"}

retryable(kind) == kind \in {"s503", "s429"}

FoundReviews == <<Review("PolitiFact", RatingFalse, UrlOf(1))>>

InitRetry ==
    /\ NoCalls
    /\ NoAdapter
    /\ NoNlp
    /\ attempt = 0
    /\ rpc = "fresh"
    /\ requests = 0
    /\ answers = <<>>
    /\ sleeps = <<>>
    /\ retryOut = NoRet

\* searchFactChecks up to its first await: the test of the key, the first
\* pass of the loop, the request
searchFactChecksBegins(apiKey) ==
    /\ rpc = "fresh"
    /\ IF apiKey = ""
       THEN /\ rpc' = "returned"
            /\ retryOut' = Null
            /\ UNCHANGED requests
       ELSE /\ rpc' = "request"
            /\ requests' = requests + 1
            /\ UNCHANGED retryOut
    /\ UNCHANGED <<attempt, answers, sleeps>>
    /\ UNCHANGED <<pipelineVars, offered, upstream, combineIn, combineOut,
                   batchVars, keyVars, adapterVars, nlpVars>>

\* the request ends: the rest of the try block, or the catch block up to the
\* sleep or the return
Answered(kind, jitter) ==
    /\ rpc = "request"
    /\ answers' = Append(answers, kind)
    /\ IF kind = "found"
       THEN /\ retryOut' = googleVerification(HealthClaim, FoundReviews, now)
            /\ rpc' = "returned"
            /\ UNCHANGED sleeps
       ELSE IF retryable(kind)
       THEN /\ sleeps' = Append(sleeps, getBackoffDelay(attempt, jitter))
            /\ rpc' = "sleep"
            /\ UNCHANGED retryOut
       ELSE /\ retryOut' = Null
            /\ rpc' = "returned"
            /\ UNCHANGED sleeps
    /\ UNCHANGED <<attempt, requests>>
    /\ UNCHANGED <<pipelineVars, offered, upstream, combineIn, combineOut,
                   batchVars, keyVars, adapterVars, nlpVars>>

WokenAgain ==
    /\ rpc = "sleep"
    /\ attempt' = attempt + 1
    /\ rpc' = "request"
    /\ requests' = requests + 1
    /\ UNCHANGED <<answers, sleeps, retryOut>>
    /\ UNCHANGED <<pipelineVars, offered, upstream, combineIn, combineOut,
                   batchVars, keyVars, adapterVars, nlpVars>>

\* the sleep ends: continue, the loop test, and the next request or the
\* return after the loop
Woken ==
    /\ rpc = "sleep"
    /\ attempt' = attempt + 1
    /\ IF attempt + 1 < MAX_RETRIES
       THEN /\ rpc' = "request"
            /\ requests' = requests + 1
            /\ UNCHANGED retryOut
       ELSE /\ rpc' = "returned"
            /\ retryOut' = Null
            /\ UNCHANGED requests
    /\ UNCHANGED <<answers, sleeps>>
    /\ UNCHANGED <<pipelineVars, offered, upstream, combineIn, combineOut,
                   batchVars, keyVars, adapterVars, nlpVars>>

NextRetry ==
    \/ \E apiKey \in {"", "key"} : searchFactChecksBegins(apiKey)
    \/ \E kind \in AnswerKinds, jitter \in JitterSamples : Answered(kind, jitter)
    \/ Woken

SpecRetry == InitRetry /\ [][NextRetry]_vars

(* ------------------------------------------------------------------ *)
(* Properties of the retry loop                                         *)
(* ------------------------------------------------------------------ *)
Transient == {"s429", "s503"}

\* C32: searchFactChecks issues at most 3 upstream requests for one claim;
\* every request but the last was answered 429 or 503; when all 3 are
\* answered 429 or 503 the call returns null and raises nothing
ThmC32 ==
    /\ requests <= 3
    /\ Len(answers) <= requests
    /\ \A i \in 1..(requests - 1) : answers[i] \in Transient
    /\ retryOut # Raise
    /\ (rpc = "returned" /\ Len(answers) = 3 /\ \A i \in 1..3 : answers[i] \in Transient)
          => retryOut = Null

\* three requests were answered 429, 503, 429 and the call returned null
WitC32 ==
    /\ rpc = "returned"
    /\ requests = 3
    /\ answers = <<"s429", "s503", "s429">>
    /\ retryOut = Null

\* C33: a request that ends in anything but 429 or 503 (another status, a
\* timeout without response, an exception while the response is processed)
\* is the last one: null is returned at once, with no sleep after it
ThmC33 ==
    \A i \in 1..Len(answers) :
        answers[i] \in {"s400", "timeout", "malformed"} =>
            /\ i = Len(answers)
            /\ requests = i
            /\ Len(sleeps) = i - 1
            /\ rpc = "returned"
            /\ retryOut = Null

\* the second request timed out after a 503: one sleep, two requests, null
WitC33 ==
    /\ answers = <<"s503", "timeout">>
    /\ requests = 2
    /\ Len(sleeps) = 1
    /\ retryOut = Null

\* C34: the delay slept after failed attempt k is at least 1000 * 2^k and
\* less than 1000 * 2^k + 500 milliseconds, and at most 10000
CexC34 ==
    \A i \in 1..Len(sleeps) :
        /\ 1000 * 2^(i - 1) <= sleeps[i]
        /\ sleeps[i] < 1000 * 2^(i - 1) + 500
        /\ sleeps[i] <= 10000

\* C34, amended: the delay slept after failed attempt k is at least
\* 1000 * 2^k and at most 1000 * 2^k + 500 milliseconds, and at most 10000
ThmC34 ==
    \A i \in 1..Len(sleeps) :
        /\ 1000 * 2^(i - 1) <= sleeps[i]
        /\ sleeps[i] <= 1000 * 2^(i - 1) + 500
        /\ sleeps[i] <= 10000

\* three delays were slept, the last of them with the largest jitter
WitC34 ==
    /\ Len(sleeps) = 3
    /\ sleeps[1] = 1000
    /\ sleeps[2] = 2250
    /\ sleeps[3] = 4500

\* C35: no sleep follows the failure of the last permitted attempt: a call
\* that returned slept once less than it sent requests, so at most twice
CexC35 ==
    /\ Len(sleeps) < MAX_RETRIES
    /\ (rpc = "returned" /\ requests > 0) => Len(sleeps) = requests - 1

(* ------------------------------------------------------------------ *)
(* Properties of the aggregate rating                                   *)
(* ------------------------------------------------------------------ *)
\* the mapped ratings of the reviews handed to the Google adapter
MappedRatings ==
    [i \in 1..Len(adapterIn.reviews) |-> mapped(adapterIn.reviews[i].textualRating)]

Occurrences(r) == Cardinality({i \in DOMAIN MappedRatings : MappedRatings[i] = r})

\* C31: the rating the Google adapter returns occurs among the mapped ratings
\* of the reviews at least as often as every other one, and every other one
\* that occurs as often has no occurrence before its first occurrence
ThmC31 ==
    GoogleAnswered =>
        \E i \in DOMAIN MappedRatings :
            /\ MappedRatings[i] = adapterOut.rating
            /\ \A j \in DOMAIN MappedRatings :
                  /\ Occurrences(MappedRatings[j]) <= Occurrences(adapterOut.rating)
                  /\ (/\ Occurrences(MappedRatings[j]) = Occurrences(adapterOut.rating)
                      /\ MappedRatings[j] # adapterOut.rating) => i < j

\* four reviews rated False, True, True, False: two mapped ratings occur
\* twice and the adapter returned the one of the first review
WitC31 ==
    /\ GoogleAnswered
    /\ MappedRatings = <<"false", "verified", "verified", "false">>
    /\ adapterOut.rating = "false"

(* ------------------------------------------------------------------ *)
(* NlpServiceClient: the availability flag and extractClaims            *)
(* ------------------------------------------------------------------ *)
\* what GET /health ends in: status 'healthy', another status, no response
HealthKinds == {"healthy", "loading", "error"}

\* what POST /extract ends in: a response with claims, an error or timeout
ExtractKinds == {"claims", "error"}

healthyAlways(kind) == TRUE

healthy(kind) == kind = "healthy"

\* the outcome of a request as the log of the service would record it
OutcomeOf(kind) == IF kind \in {"healthy", "claims"} THEN "ok" ELSE "fail"

ExtractedClaims == [claims |-> <<"claim">>]

\* after the constructor: the flag is false and the startup health check is
\* in flight
InitNlp ==
    /\ NoCalls
    /\ NoAdapter
    /\ NoRetry
    /\ isAvailable = FALSE
    /\ npc = [p \in Procs |-> "idle"]
    /\ sent = [p \in Procs |-> <<>>]
    /\ nlpOut = [p \in Procs |-> NoRet]
    /\ startup = "pending"
    /\ lastOutcome = "none"

\* checkHealth of the constructor ends
StartupAnswered(kind) ==
    /\ startup = "pending"
    /\ startup' = "done"
    /\ isAvailable' = healthy(kind)
    /\ lastOutcome' = OutcomeOf(kind)
    /\ UNCHANGED <<npc, sent, nlpOut>>
    /\ UNCHANGED <<pipelineVars, offered, upstream, combineIn, combineOut,
                   batchVars, keyVars, adapterVars, retryVars>>

\* extractClaims up to its first await: the health check when the flag is
\* false, the extract request when it is true
extractClaims(p) ==
    /\ npc[p] = "idle"
    /\ nlpOut' = [nlpOut EXCEPT ![p] = NoRet]
    /\ IF ~isAvailable
       THEN /\ npc' = [npc EXCEPT ![p] = "health"]
            /\ sent' = [sent EXCEPT ![p] = <<"health">>]
       ELSE /\ npc' = [npc EXCEPT ![p] = "extract"]
            /\ sent' = [sent EXCEPT ![p] = <<"extract">>]
    /\ UNCHANGED <<isAvailable, startup, lastOutcome>>
    /\ UNCHANGED <<pipelineVars, offered, upstream, combineIn, combineOut,
                   batchVars, keyVars, adapterVars, retryVars>>

\* the health check of extractClaims ends: checkHealth writes the flag and
\* returns it, extractClaims returns null or sends the extract request
HealthAnswered(p, kind) ==
    /\ npc[p] = "health"
    /\ isAvailable' = healthy(kind)
    /\ lastOutcome' = OutcomeOf(kind)
    /\ IF ~isAvailable'
       THEN /\ npc' = [npc EXCEPT ![p] = "idle"]
            /\ nlpOut' = [nlpOut EXCEPT ![p] = Null]
            /\ UNCHANGED sent
       ELSE /\ npc' = [npc EXCEPT ![p] = "extract"]
            /\ sent' = [sent EXCEPT ![p] = Append(sent[p], "extract")]
            /\ UNCHANGED nlpOut
    /\ UNCHANGED startup
    /\ UNCHANGED <<pipelineVars, offered, upstream, combineIn, combineOut,
                   batchVars, keyVars, adapterVars, retryVars>>

\* the extract request ends: the claims are returned, or the flag is
\* cleared and null is returned
ExtractAnswered(p, kind) ==
    /\ npc[p] = "extract"
    /\ npc' = [npc EXCEPT ![p] = "idle"]
    /\ lastOutcome' = OutcomeOf(kind)
    /\ IF kind = "claims"
       THEN /\ nlpOut' = [nlpOut EXCEPT ![p] = ExtractedClaims]
            /\ UNCHANGED isAvailable
       ELSE /\ nlpOut' = [nlpOut EXCEPT ![p] = Null]
            /\ isAvailable' = FALSE
    /\ UNCHANGED <<sent, startup>>
    /\ UNCHANGED <<pipelineVars, offered, upstream, combineIn, combineOut,
                   batchVars, keyVars, adapterVars, retryVars>>

NextNlp ==
    \/ \E kind \in HealthKinds : StartupAnswered(kind)
    \/ \E p \in Procs : extractClaims(p)
    \/ \E p \in Procs, kind \in HealthKinds : HealthAnswered(p, kind)
    \/ \E p \in Procs, kind \in ExtractKinds : ExtractAnswered(p, kind)

SpecNlp == InitNlp /\ [][NextNlp]_vars

(* ------------------------------------------------------------------ *)
(* Properties of the NLP client                                         *)
(* ------------------------------------------------------------------ *)
\* the caller sends POST /extract in this step
SendsExtract(p) == npc[p] # "extract" /\ npc'[p] = "extract"

\* the caller enters extractClaims in this step
Enters(p) == npc[p] = "idle" /\ npc'[p] # "idle"

\* C37: an extract request is sent only at a moment when isAvailable is true
\* and the health check or extraction that ended last succeeded; a call
\* entered when the last of them failed begins with the health check; a
\* health check of extractClaims that fails ends the call with null and
\* without an extract request
ThmC37 ==
    [][\A p \in Procs :
          /\ SendsExtract(p) => (isAvailable' /\ lastOutcome' = "ok")
          /\ (Enters(p) /\ lastOutcome = "fail") => sent'[p] = <<"health">>
          /\ (npc[p] = "health" /\ npc'[p] # "health" /\ lastOutcome' = "fail") =>
                /\ npc'[p] = "idle"
                /\ nlpOut'[p] = Null
                /\ sent'[p] = <<"health">>]_vars

\* the health check of one caller failed last and its call returned null
\* without an extract request, while the other caller has an extract request
\* in flight that it sent after its own health check succeeded
WitC37 ==
    /\ lastOutcome = "fail"
    /\ ~isAvailable
    /\ npc[1] = "idle" /\ sent[1] = <<"health">> /\ nlpOut[1] = Null
    /\ npc[2] = "extract" /\ sent[2] = <<"health", "extract">>

====
